---- MODULE Spec2Model ----
(***************************************************************************)
(* Model of the tz_web backend: the users router (register a user), the    *)
(* specs router (create spec, fork, compare), the versions router (graph,  *)
(* save graph, status) and the relational schema they run against; and of  *)
(* the editor of the frontend with its import of a sheet.                  *)
(*                                                                         *)
(* Tables are sequences of rows in the order of their SERIAL ids, which is *)
(* the order the un-ordered findMany / include queries return them in.     *)
(* The opaque metadata / plainText / comment columns are carried through   *)
(* unread by every handler modelled here and are left out; of createdById  *)
(* the foreign key to User is kept, the column itself is left out.         *)
(***************************************************************************)
EXTENDS Integers, Sequences, FiniteSets, TLC

VARIABLES users, specs, versions, steps, transitions, seqs, reqs

vars == <<users, specs, versions, steps, transitions, seqs, reqs>>

(***************************************************************************)
(* Values                                                                  *)
(***************************************************************************)

\* JS null / undefined for a text value
null == "<null>"

\* result of a findUnique / findFirst / Map.get that found nothing
NoRow == [id |-> 0]

\* `x || ''` on a text value
OrEmpty(x) == IF x = null \/ x = "" THEN "" ELSE x

\* `x || null` on a text value
OrNull(x) == IF x = null \/ x = "" THEN null ELSE x

\* `!x` on a text value (a step key looked up in a Map)
Falsy(x) == x = null \/ x = ""

RECURSIVE SeqToSet(_)
SeqToSet(s) == IF s = <<>> THEN {} ELSE {Head(s)} \cup SeqToSet(Tail(s))

\* all sequences over S of length at most n
SeqsUpTo(S, n) == UNION {[1..k -> S] : k \in 0..n}

(***************************************************************************)
(* JS Map: a sequence of entries in insertion order; set() on a present    *)
(* key replaces the value in place.                                        *)
(***************************************************************************)

MapHas(m, k) == \E i \in 1..Len(m) : m[i].key = k

MapGet(m, k) ==
  IF MapHas(m, k)
  THEN m[CHOOSE i \in 1..Len(m) : m[i].key = k].value
  ELSE NoRow

\* variant: set() adds an entry whether or not the key is present
MapSetAppending(m, k, v) == Append(m, [key |-> k, value |-> v])

MapSet(m, k, v) ==
  IF MapHas(m, k)
  THEN [i \in 1..Len(m) |-> IF m[i].key = k THEN [key |-> k, value |-> v] ELSE m[i]]
  ELSE Append(m, [key |-> k, value |-> v])

\* rows.forEach((s) => map.set(s.stepKey, s))
RECURSIVE StepsByKeyFrom(_, _)
StepsByKeyFrom(m, rows) ==
  IF rows = <<>> THEN m
  ELSE StepsByKeyFrom(MapSet(m, Head(rows).stepKey, Head(rows)), Tail(rows))

StepsByKey(rows) == StepsByKeyFrom(<<>>, rows)

\* rows.forEach((s) => map.set(s.id, s.stepKey)); the looked-up value is text
RECURSIVE IdToKeyFrom(_, _)
IdToKeyFrom(m, rows) ==
  IF rows = <<>> THEN m
  ELSE IdToKeyFrom(MapSet(m, Head(rows).id, Head(rows).stepKey), Tail(rows))

IdToKey(rows) == IdToKeyFrom(<<>>, rows)

\* idToKey.get(id): the key, or undefined
KeyOfId(m, id) == IF MapHas(m, id) THEN MapGet(m, id) ELSE null

(***************************************************************************)
(* Diff engine (GET /:id/versions/compare, after both versions are loaded) *)
(***************************************************************************)

StepEntry(stepKey, s) ==
  [stepKey |-> stepKey, title |-> s.title, description |-> s.description, type |-> s.type]

StepTriple(s) == [title |-> s.title, description |-> s.description, type |-> s.type]

\* variant: only the old description is normalised
StepDiffersOneSided(fromStep, toStep) ==
  \/ fromStep.title # toStep.title
  \/ OrEmpty(fromStep.description) # toStep.description
  \/ fromStep.type # toStep.type

\* variant: the position is compared as well
StepDiffersWithPosition(fromStep, toStep) ==
  \/ fromStep.title # toStep.title
  \/ OrEmpty(fromStep.description) # OrEmpty(toStep.description)
  \/ fromStep.type # toStep.type
  \/ fromStep.posX # toStep.posX
  \/ fromStep.posY # toStep.posY

\* the condition of the `if` that pushes to stepsChanged
StepDiffers(fromStep, toStep) ==
  \/ fromStep.title # toStep.title
  \/ OrEmpty(fromStep.description) # OrEmpty(toStep.description)
  \/ fromStep.type # toStep.type

MapSeq(s, F(_)) == [i \in 1..Len(s) |-> F(s[i])]

\* variant: the else is missing, a changed step is pushed to added as well
stepsAddedAlsoChanged(fromStepsByKey, toStepsByKey) ==
  MapSeq(SelectSeq(toStepsByKey,
                   LAMBDA e : \/ MapGet(fromStepsByKey, e.key) = NoRow
                              \/ StepDiffers(MapGet(fromStepsByKey, e.key), e.value)),
         LAMBDA e : StepEntry(e.key, e.value))

stepsAdded(fromStepsByKey, toStepsByKey) ==
  MapSeq(SelectSeq(toStepsByKey, LAMBDA e : MapGet(fromStepsByKey, e.key) = NoRow),
         LAMBDA e : StepEntry(e.key, e.value))

stepsChanged(fromStepsByKey, toStepsByKey) ==
  MapSeq(SelectSeq(toStepsByKey,
                   LAMBDA e : /\ MapGet(fromStepsByKey, e.key) # NoRow
                              /\ StepDiffers(MapGet(fromStepsByKey, e.key), e.value)),
         LAMBDA e : [stepKey |-> e.key,
                     from |-> StepTriple(MapGet(fromStepsByKey, e.key)),
                     to |-> StepTriple(e.value)])

\* variant: the removed entry carries the normalised description
stepsRemovedNormalised(fromStepsByKey, toStepsByKey) ==
  MapSeq(SelectSeq(fromStepsByKey, LAMBDA e : ~MapHas(toStepsByKey, e.key)),
         LAMBDA e : [StepEntry(e.key, e.value) EXCEPT !.description = OrEmpty(e.value.description)])

stepsRemoved(fromStepsByKey, toStepsByKey) ==
  MapSeq(SelectSeq(fromStepsByKey, LAMBDA e : ~MapHas(toStepsByKey, e.key)),
         LAMBDA e : StepEntry(e.key, e.value))

buildEdgeKey(fromKey, toKey, label) == fromKey \o "->" \o toKey \o "|" \o OrEmpty(label)

\* transitions.forEach(...) filling fromEdgesSet / toEdgesSet
RECURSIVE EdgesSetFrom(_, _, _)
EdgesSetFrom(m, idToKey, trs) ==
  IF trs = <<>> THEN m
  ELSE LET tr == Head(trs)
           fromKey == KeyOfId(idToKey, tr.fromStepId)
           toKey == KeyOfId(idToKey, tr.toStepId)
       IN IF Falsy(fromKey) \/ Falsy(toKey)
          THEN EdgesSetFrom(m, idToKey, Tail(trs))
          ELSE EdgesSetFrom(MapSet(m, buildEdgeKey(fromKey, toKey, tr.label),
                                   [fromKey |-> fromKey, toKey |-> toKey, label |-> tr.label]),
                            idToKey, Tail(trs))

EdgesSet(version) == EdgesSetFrom(<<>>, IdToKey(version.steps), version.transitions)

edgesAdded(fromEdgesSet, toEdgesSet) ==
  MapSeq(SelectSeq(toEdgesSet, LAMBDA e : ~MapHas(fromEdgesSet, e.key)), LAMBDA e : e.value)

edgesRemoved(fromEdgesSet, toEdgesSet) ==
  MapSeq(SelectSeq(fromEdgesSet, LAMBDA e : ~MapHas(toEdgesSet, e.key)), LAMBDA e : e.value)

\* the body of the 200 response, for two loaded versions
Diff(fromVersion, toVersion) ==
  [steps |-> [added |-> stepsAdded(StepsByKey(fromVersion.steps), StepsByKey(toVersion.steps)),
              removed |-> stepsRemoved(StepsByKey(fromVersion.steps), StepsByKey(toVersion.steps)),
              changed |-> stepsChanged(StepsByKey(fromVersion.steps), StepsByKey(toVersion.steps))],
   edges |-> [added |-> edgesAdded(EdgesSet(fromVersion), EdgesSet(toVersion)),
              removed |-> edgesRemoved(EdgesSet(fromVersion), EdgesSet(toVersion))]]

(***************************************************************************)
(* Store reads                                                             *)
(***************************************************************************)

StepsOf(versionId) == SelectSeq(steps, LAMBDA s : s.versionId = versionId)

TransitionsOf(versionId) == SelectSeq(transitions, LAMBDA t : t.versionId = versionId)

VersionExists(versionId) == \E i \in 1..Len(versions) : versions[i].id = versionId

VersionRow(versionId) == versions[CHOOSE i \in 1..Len(versions) : versions[i].id = versionId]

\* prisma.specVersion.findUnique({ where: { id }, include: { steps, transitions } })
\* is carried out as one query per table, outside any transaction: the version
\* row and its steps first ...
FindVersionWithSteps(versionId) ==
  IF VersionExists(versionId)
  THEN [id |-> versionId,
        specId |-> VersionRow(versionId).specId,
        versionNumber |-> VersionRow(versionId).versionNumber,
        status |-> VersionRow(versionId).status,
        steps |-> StepsOf(versionId)]
  ELSE NoRow

\* ... and its transitions in a later statement, which sees what is committed then
WithTransitions(version) ==
  [id |-> version.id, specId |-> version.specId, versionNumber |-> version.versionNumber,
   status |-> version.status, steps |-> version.steps,
   transitions |-> TransitionsOf(version.id)]

\* the result of the include when nothing is committed between its statements
FindVersionWithGraph(versionId) ==
  IF VersionExists(versionId)
  THEN [id |-> versionId,
        specId |-> VersionRow(versionId).specId,
        versionNumber |-> VersionRow(versionId).versionNumber,
        status |-> VersionRow(versionId).status,
        steps |-> StepsOf(versionId),
        transitions |-> TransitionsOf(versionId)]
  ELSE NoRow

\* a row takes its place in a table when its INSERT runs, which is when its
\* id is drawn: the rows of a table stand in the order of their ids
RECURSIVE InsertRow(_, _)
InsertRow(table, row) ==
  IF table = <<>> THEN <<row>>
  ELSE IF Head(table).id > row.id THEN <<row>> \o table
       ELSE <<Head(table)>> \o InsertRow(Tail(table), row)

RECURSIVE InsertRows(_, _)
InsertRows(table, rows) ==
  IF rows = <<>> THEN table ELSE InsertRows(InsertRow(table, Head(rows)), Tail(rows))

(***************************************************************************)
(* Requests                                                                *)
(*                                                                         *)
(* A handler gives up control at every `await`, so each statement it sends *)
(* to the store is a step of its own and statements of other requests run  *)
(* in between.  A SERIAL id is drawn by the INSERT that uses it, inside a  *)
(* transaction as well, and is not given back when the transaction is      *)
(* rolled back.  The rows a transaction has written are kept with the      *)
(* request until its COMMIT puts them into the tables; BEGIN reads and     *)
(* writes nothing and is taken together with the first statement of the    *)
(* transaction.                                                            *)
(***************************************************************************)

Idle == [op |-> "none", pc |-> "idle"]

\* request slots are taken in order
CanStart(r) == reqs[r].pc = "idle" /\ \A q \in DOMAIN reqs : q < r => reqs[q].pc # "idle"

\* every id the sequence of a table has handed out so far
KnownIds(table) == 1..seqs[table]

\* requests per run; the highest spec id and the highest version id or
\* version number a client names
MaxReqs == 4
MaxSpecs == 2
MaxVersions == 3

\* nodes and edges per submitted graph
MaxNodes == 2
MaxEdges == 1

\* ids a client can put into a URL or a query
SpecIdInputs == 1..MaxSpecs

VersionIdInputs == 1..MaxVersions

\* a React Flow node as sent by a client; position <<>> is an absent position
NodeInputs ==
  {[id |-> "a", type |-> "start", title |-> "A", description |-> "d", position |-> <<1, 2>>],
   [id |-> "", type |-> null, title |-> null, description |-> "", position |-> <<>>]}

EdgeInputs ==
  {[source |-> "a", target |-> "", label |-> "x", condition |-> "c"],
   [source |-> "a", target |-> "zz", label |-> null, condition |-> null]}

\* edge lists of a request body: every list of up to MaxEdges edges, and the
\* list of an edge between the two nodes followed by an edge to no node
EdgeLists ==
  SeqsUpTo(EdgeInputs, MaxEdges)
    \cup {<<[source |-> "a", target |-> "", label |-> "x", condition |-> "c"],
            [source |-> "a", target |-> "zz", label |-> null, condition |-> null]>>}

\* what the edge loop can have read of such a list
EdgePrefixes == UNION {{SubSeq(list, 1, k) : k \in 0..Len(list)} : list \in EdgeLists}

\* ids of the registered users, the rows of User
UserIds == {users[i].id : i \in 1..Len(users)}

\* createdById of a request body; 0 is an absent one
CreatedByInputs == {0, 1}

\* the foreign key of createdById: `createdById || null` must name a user
\* that is registered when the statement runs
CreatedByOk(createdById) == createdById = 0 \/ createdById \in UserIds

(***************************************************************************)
(* POST /api/users                                                         *)
(***************************************************************************)

\* request arrives.  One without username is answered 400 and changes
\* nothing.  Otherwise prisma.user.create draws the id of the user; with a
\* username that is taken the create breaks the unique index on username and
\* throws: the id is spent, no row is stored and the answer is 500.  The
\* bodies followed here have no fullName and no email.
CreateUser(r) ==
  /\ CanStart(r)
  /\ \E username \in {null, "u1"} :
       IF Falsy(username)
       THEN /\ reqs' = [reqs EXCEPT ![r] = [op |-> "createUser", pc |-> "done",
                                            res |-> [status |-> 400]]]
            /\ UNCHANGED <<users, seqs>>
       ELSE /\ seqs' = [seqs EXCEPT !.user = seqs.user + 1]
            /\ IF \E i \in 1..Len(users) : users[i].username = username
               THEN /\ users' = users
                    /\ reqs' = [reqs EXCEPT ![r] = [op |-> "createUser", pc |-> "done",
                                                    res |-> [status |-> 500]]]
               ELSE /\ users' = InsertRows(users, <<[id |-> seqs.user + 1,
                                                     username |-> username]>>)
                    /\ reqs' = [reqs EXCEPT ![r] =
                                  [op |-> "createUser", pc |-> "done",
                                   res |-> [status |-> 201,
                                            user |-> [id |-> seqs.user + 1,
                                                      username |-> username]]]]
  /\ UNCHANGED <<specs, versions, steps, transitions>>

(***************************************************************************)
(* GET /api/specs/:id/versions/compare?from=&to=                           *)
(***************************************************************************)

\* request arrives; first await: the row of fromVersion and its steps.  Of a
\* version that is not there nothing more is loaded.
CompareLoadFrom(r) ==
  /\ CanStart(r)
  /\ \E specId \in SpecIdInputs, from \in VersionIdInputs, to \in VersionIdInputs :
       reqs' = [reqs EXCEPT ![r] =
                  [op |-> "compare",
                   pc |-> IF VersionExists(from) THEN "loadFromTransitions" ELSE "loadTo",
                   specId |-> specId, from |-> from, to |-> to,
                   fromVersion |-> FindVersionWithSteps(from)]]
  /\ UNCHANGED <<users, specs, versions, steps, transitions, seqs>>

CompareLoadFromTransitions(r) ==
  /\ reqs[r].op = "compare" /\ reqs[r].pc = "loadFromTransitions"
  /\ reqs' = [reqs EXCEPT ![r] = [op |-> "compare", pc |-> "loadTo", specId |-> reqs[r].specId,
                                  from |-> reqs[r].from, to |-> reqs[r].to,
                                  fromVersion |-> WithTransitions(reqs[r].fromVersion)]]
  /\ UNCHANGED <<users, specs, versions, steps, transitions, seqs>>

\* the two checks after both versions are loaded, then the diff
CompareResponse(specId, fromVersion, toVersion) ==
  IF fromVersion = NoRow \/ toVersion = NoRow
  THEN [status |-> 404]
  ELSE IF fromVersion.specId # specId \/ toVersion.specId # specId
       THEN [status |-> 400]
       ELSE [status |-> 200, body |-> Diff(fromVersion, toVersion)]

\* the request is answered; with a diff, what it loaded is kept with the answer
CompareDone(r, toVersion) ==
  IF CompareResponse(reqs[r].specId, reqs[r].fromVersion, toVersion).status = 200
  THEN [op |-> "compare", pc |-> "done", specId |-> reqs[r].specId,
        from |-> reqs[r].from, to |-> reqs[r].to,
        fromVersion |-> reqs[r].fromVersion, toVersion |-> toVersion,
        res |-> CompareResponse(reqs[r].specId, reqs[r].fromVersion, toVersion)]
  ELSE [op |-> "compare", pc |-> "done",
        res |-> CompareResponse(reqs[r].specId, reqs[r].fromVersion, toVersion)]

\* second await: the row of toVersion and its steps ...
CompareLoadTo(r) ==
  /\ reqs[r].op = "compare" /\ reqs[r].pc = "loadTo"
  /\ reqs' = [reqs EXCEPT ![r] =
                IF VersionExists(reqs[r].to)
                THEN [op |-> "compare", pc |-> "loadToTransitions", specId |-> reqs[r].specId,
                      from |-> reqs[r].from, to |-> reqs[r].to,
                      fromVersion |-> reqs[r].fromVersion,
                      toVersion |-> FindVersionWithSteps(reqs[r].to)]
                ELSE CompareDone(r, NoRow)]
  /\ UNCHANGED <<users, specs, versions, steps, transitions, seqs>>

\* ... and its transitions; then the checks, the diff and the response
CompareLoadToTransitions(r) ==
  /\ reqs[r].op = "compare" /\ reqs[r].pc = "loadToTransitions"
  /\ reqs' = [reqs EXCEPT ![r] = CompareDone(r, WithTransitions(reqs[r].toVersion))]
  /\ UNCHANGED <<users, specs, versions, steps, transitions, seqs>>

(***************************************************************************)
(* GET /api/versions/:id/graph                                             *)
(***************************************************************************)

\* version.steps.map(...): the nodes of the response
GraphNodes(stepRows) ==
  [i \in 1..Len(stepRows) |->
     [id |-> stepRows[i].stepKey, type |-> stepRows[i].type,
      position |-> [x |-> stepRows[i].posX, y |-> stepRows[i].posY],
      data |-> [title |-> stepRows[i].title, description |-> stepRows[i].description]]]

\* version.transitions.map(...): the edges of the response; an end whose step
\* is not among the loaded steps comes out undefined.  id stands for the
\* decimal string of the row id.
GraphEdges(stepRows, transitionRows) ==
  [i \in 1..Len(transitionRows) |->
     [id |-> transitionRows[i].id,
      source |-> KeyOfId(IdToKey(stepRows), transitionRows[i].fromStepId),
      target |-> KeyOfId(IdToKey(stepRows), transitionRows[i].toStepId),
      label |-> OrEmpty(transitionRows[i].label),
      data |-> [condition |-> transitionRows[i].condition]]]

GraphResponse(stepRows, transitionRows) ==
  [status |-> 200, nodes |-> GraphNodes(stepRows),
   edges |-> GraphEdges(stepRows, transitionRows)]

\* request arrives; the version row and its steps are loaded.  A request for
\* a missing version is answered 404 and changes nothing.  The handler does
\* not read the transitions here; `stored` records those the version holds at
\* this moment, for stating what a reader may be shown.
GraphLoad(r) ==
  /\ CanStart(r)
  /\ \E versionId \in VersionIdInputs :
       /\ VersionExists(versionId)
       /\ reqs' = [reqs EXCEPT ![r] = [op |-> "graph", pc |-> "loadTransitions",
                                       versionId |-> versionId,
                                       version |-> FindVersionWithSteps(versionId),
                                       stored |-> TransitionsOf(versionId)]]
  /\ UNCHANGED <<users, specs, versions, steps, transitions, seqs>>

\* the transitions are loaded and the response is built
GraphLoadTransitions(r) ==
  /\ reqs[r].op = "graph" /\ reqs[r].pc = "loadTransitions"
  /\ LET version == WithTransitions(reqs[r].version)
     IN reqs' = [reqs EXCEPT ![r] =
                   [op |-> "graph", pc |-> "done", versionId |-> reqs[r].versionId,
                    res |-> GraphResponse(version.steps, version.transitions)]]
  /\ UNCHANGED <<users, specs, versions, steps, transitions, seqs>>

(***************************************************************************)
(* POST /api/specs                                                         *)
(***************************************************************************)

\* the first version of a new spec
FirstVersion(versionId, specId) ==
  [id |-> versionId, specId |-> specId, versionNumber |-> 1,
   status |-> "draft", basedOnVersionId |-> 0]

\* variant: tx.spec.create runs on prisma itself, the spec row is stored at once
CreateSpecUnwrapped(r, title, createdById) ==
  /\ CanStart(r)
  /\ ~Falsy(title)
  /\ seqs' = [seqs EXCEPT !.spec = seqs.spec + 1]
  /\ IF CreatedByOk(createdById)
     THEN /\ specs' = InsertRows(specs, <<[id |-> seqs.spec + 1, currentVersionId |-> 0]>>)
          /\ reqs' = [reqs EXCEPT ![r] =
                        [op |-> "createSpec", pc |-> "createVersion",
                         spec |-> [id |-> seqs.spec + 1, currentVersionId |-> 0],
                         version |-> NoRow]]
     ELSE /\ specs' = specs
          /\ reqs' = [reqs EXCEPT ![r] = [op |-> "createSpec", pc |-> "done",
                                          res |-> [status |-> 500]]]
  /\ UNCHANGED <<users, versions, steps, transitions>>

\* request arrives (one without title is answered 400 and changes nothing),
\* the transaction opens and tx.spec.create draws the id of the spec.  With a
\* createdById that names no user the create throws: the id is spent, the
\* transaction is rolled back and the answer is 500.
CreateSpecWith(r, title, createdById) ==
  /\ CanStart(r)
  /\ ~Falsy(title)
  /\ seqs' = [seqs EXCEPT !.spec = seqs.spec + 1]
  /\ reqs' = [reqs EXCEPT ![r] =
                IF CreatedByOk(createdById)
                THEN [op |-> "createSpec", pc |-> "createVersion",
                      spec |-> [id |-> seqs.spec + 1, currentVersionId |-> 0],
                      version |-> NoRow]
                ELSE [op |-> "createSpec", pc |-> "done", res |-> [status |-> 500]]]
  /\ UNCHANGED <<users, specs, versions, steps, transitions>>

CreateSpec(r) ==
  \E title \in {null, "S"}, createdById \in CreatedByInputs :
    CreateSpecWith(r, title, createdById)

\* tx.specVersion.create draws the id of the first version
CreateSpecVersion(r) ==
  /\ reqs[r].op = "createSpec" /\ reqs[r].pc = "createVersion"
  /\ seqs' = [seqs EXCEPT !.version = seqs.version + 1]
  /\ reqs' = [reqs EXCEPT ![r] =
                [op |-> "createSpec", pc |-> "updateSpec", spec |-> reqs[r].spec,
                 version |-> FirstVersion(seqs.version + 1, reqs[r].spec.id)]]
  /\ UNCHANGED <<users, specs, versions, steps, transitions>>

\* tx.spec.update points the spec, still the transaction's own, at the version
CreateSpecUpdate(r) ==
  /\ reqs[r].op = "createSpec" /\ reqs[r].pc = "updateSpec"
  /\ reqs' = [reqs EXCEPT ![r] =
                [op |-> "createSpec", pc |-> "commit",
                 spec |-> [reqs[r].spec EXCEPT !.currentVersionId = reqs[r].version.id],
                 version |-> reqs[r].version]]
  /\ UNCHANGED <<users, specs, versions, steps, transitions, seqs>>

\* COMMIT: the spec and its version are stored; the answer is 201
CreateSpecCommit(r) ==
  /\ reqs[r].op = "createSpec" /\ reqs[r].pc = "commit"
  /\ specs' = InsertRows(specs, <<reqs[r].spec>>)
  /\ versions' = InsertRows(versions, <<reqs[r].version>>)
  /\ reqs' = [reqs EXCEPT ![r] = [op |-> "createSpec", pc |-> "done",
                                  res |-> [status |-> 201, version |-> reqs[r].version]]]
  /\ UNCHANGED <<users, steps, transitions, seqs>>

(***************************************************************************)
(* POST /api/specs/:id/versions/:versionNumber/fork                        *)
(***************************************************************************)

\* prisma.specVersion.findFirst({ where: { specId, versionNumber } })
FindBaseVersion(specId, versionNumber) ==
  LET hits == SelectSeq(versions, LAMBDA v : v.specId = specId /\ v.versionNumber = versionNumber)
  IN IF hits = <<>> THEN NoRow ELSE Head(hits)

RECURSIVE MaxVersionNumber(_)
MaxVersionNumber(vs) ==
  IF vs = <<>> THEN 0
  ELSE IF Head(vs).versionNumber > MaxVersionNumber(Tail(vs))
       THEN Head(vs).versionNumber ELSE MaxVersionNumber(Tail(vs))

\* (lastVersion?.versionNumber || 0) + 1, lastVersion the highest-numbered of the spec
NewVersionNumber(specId) ==
  MaxVersionNumber(SelectSeq(versions, LAMBDA v : v.specId = specId)) + 1

\* uuidv4(): a fresh key, one per created step
RECURSIVE Uuid(_)
Uuid(n) == IF n = 0 THEN "uuid-" ELSE Uuid(n - 1) \o "x"

\* request arrives; first await: the base version.  A request for a missing
\* base version is answered 404 and changes nothing.
ForkFindBase(r) ==
  /\ CanStart(r)
  /\ \E specId \in SpecIdInputs, versionNumber \in VersionIdInputs :
       LET baseVersion == FindBaseVersion(specId, versionNumber)
       IN /\ baseVersion # NoRow
          /\ reqs' = [reqs EXCEPT ![r] =
                        [op |-> "fork", pc |-> "findLast", specId |-> specId,
                         baseVersion |-> baseVersion, newVersionNumber |-> 0,
                         newVersion |-> NoRow, baseSteps |-> <<>>, newSteps |-> <<>>,
                         baseTransitions |-> <<>>, newTransitions |-> <<>>]]
  /\ UNCHANGED <<users, specs, versions, steps, transitions, seqs>>

\* second await: the last version of the spec, for the new version number
ForkFindLast(r) ==
  /\ reqs[r].op = "fork" /\ reqs[r].pc = "findLast"
  /\ reqs' = [reqs EXCEPT ![r] =
                [reqs[r] EXCEPT !.pc = "createVersion",
                                !.newVersionNumber = NewVersionNumber(reqs[r].specId)]]
  /\ UNCHANGED <<users, specs, versions, steps, transitions, seqs>>

\* the transaction opens and tx.specVersion.create draws the id of the new
\* version.  With a createdById that names no user the create throws: the id
\* is spent, the transaction is rolled back and the answer is 500.
\* Nothing before this statement depends on the createdById of the request
\* body, which is drawn here.
ForkCreateVersion(r) ==
  /\ reqs[r].op = "fork" /\ reqs[r].pc = "createVersion"
  /\ seqs' = [seqs EXCEPT !.version = seqs.version + 1]
  /\ \E createdById \in CreatedByInputs :
       reqs' = [reqs EXCEPT ![r] =
                  IF CreatedByOk(createdById)
                  THEN [reqs[r] EXCEPT
                          !.pc = "findSteps",
                          !.newVersion = [id |-> seqs.version + 1, specId |-> reqs[r].specId,
                                          versionNumber |-> reqs[r].newVersionNumber,
                                          status |-> "draft",
                                          basedOnVersionId |-> reqs[r].baseVersion.id]]
                  ELSE [op |-> "fork", pc |-> "done", res |-> [status |-> 500]]]
  /\ UNCHANGED <<users, specs, versions, steps, transitions>>

\* tx.specStep.findMany: the steps the base version holds now
ForkFindSteps(r) ==
  /\ reqs[r].op = "fork" /\ reqs[r].pc = "findSteps"
  /\ LET baseSteps == StepsOf(reqs[r].baseVersion.id)
     IN reqs' = [reqs EXCEPT ![r] =
                   [reqs[r] EXCEPT
                      !.pc = IF baseSteps = <<>> THEN "findTransitions" ELSE "createStep",
                      !.baseSteps = baseSteps]]
  /\ UNCHANGED <<users, specs, versions, steps, transitions, seqs>>

\* the copy of one base step, stored under a new id
CopyStep(step, newId, newVersionId) ==
  [id |-> newId, versionId |-> newVersionId,
   stepKey |-> IF Falsy(step.stepKey) THEN Uuid(newId) ELSE step.stepKey,
   type |-> step.type, title |-> step.title, description |-> step.description,
   posX |-> step.posX, posY |-> step.posY]

\* variant: no transaction, the copy of a step is stored by its create
ForkCreateStepUnwrapped(r) ==
  /\ reqs[r].op = "fork" /\ reqs[r].pc = "createStep"
  /\ LET i == Len(reqs[r].newSteps) + 1
         newStep == CopyStep(reqs[r].baseSteps[i], seqs.step + 1, reqs[r].newVersion.id)
     IN /\ seqs' = [seqs EXCEPT !.step = seqs.step + 1]
        /\ steps' = InsertRows(steps, <<newStep>>)
        /\ reqs' = [reqs EXCEPT ![r] =
                      [reqs[r] EXCEPT
                         !.pc = IF i = Len(reqs[r].baseSteps)
                                THEN "findTransitions" ELSE "createStep",
                         !.newSteps = Append(reqs[r].newSteps, newStep)]]
  /\ UNCHANGED <<users, specs, versions, transitions>>

\* one round of the step loop: tx.specStep.create draws the id of the copy of
\* the next base step; stepIdMap is the pairing of baseSteps and newSteps
ForkCreateStep(r) ==
  /\ reqs[r].op = "fork" /\ reqs[r].pc = "createStep"
  /\ LET i == Len(reqs[r].newSteps) + 1
         newStep == CopyStep(reqs[r].baseSteps[i], seqs.step + 1, reqs[r].newVersion.id)
     IN /\ seqs' = [seqs EXCEPT !.step = seqs.step + 1]
        /\ reqs' = [reqs EXCEPT ![r] =
                      [reqs[r] EXCEPT
                         !.pc = IF i = Len(reqs[r].baseSteps)
                                THEN "findTransitions" ELSE "createStep",
                         !.newSteps = Append(reqs[r].newSteps, newStep)]]
  /\ UNCHANGED <<users, specs, versions, steps, transitions>>

\* tx.specStepTransition.findMany: the transitions the base version holds now
ForkFindTransitions(r) ==
  /\ reqs[r].op = "fork" /\ reqs[r].pc = "findTransitions"
  /\ LET baseTransitions == TransitionsOf(reqs[r].baseVersion.id)
     IN reqs' = [reqs EXCEPT ![r] =
                   [reqs[r] EXCEPT
                      !.pc = IF baseTransitions = <<>> THEN "commit" ELSE "createTransition",
                      !.baseTransitions = baseTransitions]]
  /\ UNCHANGED <<users, specs, versions, steps, transitions, seqs>>

\* stepIdMap.get(oldId): the id of the copy, 0 for undefined
StepIdMapGet(baseSteps, newSteps, oldId) ==
  IF \E i \in 1..Len(baseSteps) : baseSteps[i].id = oldId
  THEN newSteps[CHOOSE i \in 1..Len(baseSteps) : baseSteps[i].id = oldId].id
  ELSE 0

\* one round of the transition loop: tx.specStepTransition.create draws the
\* id of the copy of the next base transition.  A transition whose end was
\* not among the steps read makes the create throw before it reaches the
\* store; the transaction is rolled back and the answer is 500.
ForkCreateTransition(r) ==
  /\ reqs[r].op = "fork" /\ reqs[r].pc = "createTransition"
  /\ LET i == Len(reqs[r].newTransitions) + 1
         tr == reqs[r].baseTransitions[i]
         fromStepId == StepIdMapGet(reqs[r].baseSteps, reqs[r].newSteps, tr.fromStepId)
         toStepId == StepIdMapGet(reqs[r].baseSteps, reqs[r].newSteps, tr.toStepId)
         newTransition == [id |-> seqs.transition + 1, versionId |-> reqs[r].newVersion.id,
                           fromStepId |-> fromStepId, toStepId |-> toStepId,
                           label |-> tr.label, condition |-> tr.condition]
     IN IF fromStepId = 0 \/ toStepId = 0
        THEN /\ reqs' = [reqs EXCEPT ![r] = [op |-> "fork", pc |-> "done",
                                             res |-> [status |-> 500]]]
             /\ seqs' = seqs
        ELSE /\ reqs' = [reqs EXCEPT ![r] =
                           [reqs[r] EXCEPT
                              !.pc = IF i = Len(reqs[r].baseTransitions)
                                     THEN "commit" ELSE "createTransition",
                              !.newTransitions = Append(reqs[r].newTransitions, newTransition)]]
             /\ seqs' = [seqs EXCEPT !.transition = seqs.transition + 1]
  /\ UNCHANGED <<users, specs, versions, steps, transitions>>

\* COMMIT: the new version and the copies are stored; the answer is 201
ForkCommit(r) ==
  /\ reqs[r].op = "fork" /\ reqs[r].pc = "commit"
  /\ versions' = InsertRows(versions, <<reqs[r].newVersion>>)
  /\ steps' = InsertRows(steps, reqs[r].newSteps)
  /\ transitions' = InsertRows(transitions, reqs[r].newTransitions)
  /\ reqs' = [reqs EXCEPT ![r] = [op |-> "fork", pc |-> "done",
                                  res |-> [status |-> 201, version |-> reqs[r].newVersion]]]
  /\ UNCHANGED <<users, specs, seqs>>

(***************************************************************************)
(* PUT /api/versions/:id/graph                                             *)
(*                                                                         *)
(* The transaction runs at the store's default isolation (read committed): *)
(* each statement works on the rows committed when it starts, a delete or  *)
(* an update waits for another open transaction that has deleted or        *)
(* updated the same row, and the transaction's own writes become visible   *)
(* to others at the commit.                                                *)
(***************************************************************************)

SaveOpen(q) == reqs[q].op = "save" /\ reqs[q].pc # "done"

\* transition rows another open save has deleted
LockedTransitions(r) ==
  UNION {reqs[q].delT : q \in {q \in DOMAIN reqs \ {r} :
                                 SaveOpen(q) /\ reqs[q].pc \notin {"deleteTransitions",
                                                                   "waitTransitions"}}}

\* step rows another open save has deleted
LockedSteps(r) ==
  UNION {reqs[q].delS : q \in {q \in DOMAIN reqs \ {r} :
                                 SaveOpen(q) /\ reqs[q].pc \in {"createStep", "createTransition",
                                                                "commit"}}}

\* the version row is free when no other open save has updated it
VersionRowFree(r, versionId) ==
  \A q \in DOMAIN reqs \ {r} :
    ~(SaveOpen(q) /\ reqs[q].pc = "commit" /\ reqs[q].versionId = versionId)

RowIds(rows) == {rows[i].id : i \in 1..Len(rows)}

SaveReq(r, pc, delT, delS) == [reqs[r] EXCEPT !.pc = pc, !.delT = delT, !.delS = delS]

\* the request is answered; its locals are gone
SaveDone(r, status) ==
  [op |-> "save", pc |-> "done", versionId |-> reqs[r].versionId, res |-> [status |-> status]]

\* request arrives; first await: findUnique of the version.  A request for a
\* missing version is answered 404 and changes nothing.
SaveFind(r) ==
  /\ CanStart(r)
  /\ \E versionId \in VersionIdInputs :
       /\ VersionExists(versionId)
       /\ reqs' = [reqs EXCEPT ![r] =
                     [op |-> "save", pc |-> "deleteTransitions", versionId |-> versionId,
                      delT |-> {}, delS |-> {}, nodes |-> <<>>, edges |-> <<>>,
                      newSteps |-> <<>>, newTransitions |-> <<>>]]
  /\ UNCHANGED <<users, specs, versions, steps, transitions, seqs>>

\* the transaction opens and
\* tx.specStepTransition.deleteMany({ where: { versionId } }) starts
SaveDeleteTransitions(r) ==
  /\ reqs[r].op = "save" /\ reqs[r].pc = "deleteTransitions"
  /\ LET targets == RowIds(TransitionsOf(reqs[r].versionId))
     IN reqs' = [reqs EXCEPT ![r] =
                   SaveReq(r, IF targets \cap LockedTransitions(r) = {}
                              THEN "deleteSteps" ELSE "waitTransitions",
                           targets, {})]
  /\ UNCHANGED <<users, specs, versions, steps, transitions, seqs>>

\* the delete goes on once the other transaction has ended
SaveResumeTransitions(r) ==
  /\ reqs[r].op = "save" /\ reqs[r].pc = "waitTransitions"
  /\ reqs[r].delT \cap LockedTransitions(r) = {}
  /\ reqs' = [reqs EXCEPT ![r] =
                SaveReq(r, "deleteSteps", reqs[r].delT \cap RowIds(transitions), {})]
  /\ UNCHANGED <<users, specs, versions, steps, transitions, seqs>>

\* ON DELETE RESTRICT: a committed transition this transaction has not
\* deleted still refers to one of the steps
StepsReferenced(stepIds, delT) ==
  \E i \in 1..Len(transitions) :
    /\ transitions[i].id \notin delT
    /\ transitions[i].fromStepId \in stepIds \/ transitions[i].toStepId \in stepIds

\* tx.specStep.deleteMany({ where: { versionId } }) starts
SaveDeleteSteps(r) ==
  /\ reqs[r].op = "save" /\ reqs[r].pc = "deleteSteps"
  /\ LET targets == RowIds(StepsOf(reqs[r].versionId))
     IN reqs' = [reqs EXCEPT ![r] =
                   IF targets \cap LockedSteps(r) # {}
                   THEN SaveReq(r, "waitSteps", reqs[r].delT, targets)
                   ELSE IF StepsReferenced(targets, reqs[r].delT)
                        THEN SaveDone(r, 500)
                        ELSE SaveReq(r, "createStep", reqs[r].delT, targets)]
  /\ UNCHANGED <<users, specs, versions, steps, transitions, seqs>>

SaveResumeSteps(r) ==
  /\ reqs[r].op = "save" /\ reqs[r].pc = "waitSteps"
  /\ reqs[r].delS \cap LockedSteps(r) = {}
  /\ LET targets == reqs[r].delS \cap RowIds(steps)
     IN reqs' = [reqs EXCEPT ![r] =
                   IF StepsReferenced(targets, reqs[r].delT)
                   THEN SaveDone(r, 500)
                   ELSE SaveReq(r, "createStep", reqs[r].delT, targets)]
  /\ UNCHANGED <<users, specs, versions, steps, transitions, seqs>>

\* the data of tx.specStep.create for one node
NewStep(node, id, versionId) ==
  [id |-> id, versionId |-> versionId, stepKey |-> node.id,
   type |-> IF Falsy(node.type) THEN "action" ELSE node.type,
   title |-> OrEmpty(node.title),
   description |-> OrNull(node.description),
   posX |-> IF node.position = <<>> THEN 0 ELSE node.position[1],
   posY |-> IF node.position = <<>> THEN 0 ELSE node.position[2]]

\* the steps of a node list, created one after the other from firstId on
NewSteps(nodes, versionId, firstId) ==
  [i \in 1..Len(nodes) |-> NewStep(nodes[i], firstId + i - 1, versionId)]

\* stepKeyToId after the node loop: node id -> id of the last step created for it
RECURSIVE StepKeyToIdFrom(_, _)
StepKeyToIdFrom(m, newSteps) ==
  IF newSteps = <<>> THEN m
  ELSE StepKeyToIdFrom(MapSet(m, Head(newSteps).stepKey, Head(newSteps).id), Tail(newSteps))

StepKeyToId(newSteps) == StepKeyToIdFrom(<<>>, newSteps)

\* stepKeyToId.get(key): the id, 0 for undefined
StepIdOfKey(m, key) == IF MapHas(m, key) THEN MapGet(m, key) ELSE 0

\* the edge loop's `if (!fromId || !toId)` is false
EdgeKept(edge, stepKeyToId) ==
  StepIdOfKey(stepKeyToId, edge.source) # 0 /\ StepIdOfKey(stepKeyToId, edge.target) # 0

\* the edges the loop does not skip
KeptEdges(edges, stepKeyToId) == SelectSeq(edges, LAMBDA e : EdgeKept(e, stepKeyToId))

\* the data of tx.specStepTransition.create for one edge
NewTransition(edge, id, versionId, stepKeyToId) ==
  [id |-> id, versionId |-> versionId,
   fromStepId |-> StepIdOfKey(stepKeyToId, edge.source),
   toStepId |-> StepIdOfKey(stepKeyToId, edge.target),
   label |-> OrNull(edge.label), condition |-> OrNull(edge.condition)]

\* the transitions of an edge list, created one after the other from firstId on
NewTransitions(edges, stepKeyToId, versionId, firstId) ==
  [i \in 1..Len(KeptEdges(edges, stepKeyToId)) |->
     NewTransition(KeptEdges(edges, stepKeyToId)[i], firstId + i - 1, versionId, stepKeyToId)]

\* one round of the node loop: tx.specStep.create draws the id of the step
\* of the next node.  Nothing before the loops depends on what the arrays of
\* the request body hold, so its nodes and edges are drawn as the loops come
\* to them.
SaveCreateStep(r) ==
  /\ reqs[r].op = "save" /\ reqs[r].pc = "createStep"
  /\ Len(reqs[r].nodes) < MaxNodes
  /\ seqs' = [seqs EXCEPT !.step = seqs.step + 1]
  /\ \E node \in NodeInputs :
       reqs' = [reqs EXCEPT ![r] =
                  [reqs[r] EXCEPT
                     !.nodes = Append(reqs[r].nodes, node),
                     !.newSteps = Append(reqs[r].newSteps,
                                         NewStep(node, seqs.step + 1, reqs[r].versionId))]]
  /\ UNCHANGED <<users, specs, versions, steps, transitions>>

\* variant: an edge to an unknown node is an error, the save is rolled back
SaveCreateTransitionStrict(r, edge) ==
  /\ reqs[r].op = "save" /\ reqs[r].pc \in {"createStep", "createTransition"}
  /\ Append(reqs[r].edges, edge) \in EdgePrefixes
  /\ IF EdgeKept(edge, StepKeyToId(reqs[r].newSteps))
     THEN /\ seqs' = [seqs EXCEPT !.transition = seqs.transition + 1]
          /\ reqs' = [reqs EXCEPT ![r] =
                        [reqs[r] EXCEPT
                           !.pc = "createTransition",
                           !.edges = Append(reqs[r].edges, edge),
                           !.newTransitions =
                              Append(reqs[r].newTransitions,
                                     NewTransition(edge, seqs.transition + 1, reqs[r].versionId,
                                                   StepKeyToId(reqs[r].newSteps)))]]
     ELSE /\ seqs' = seqs
          /\ reqs' = [reqs EXCEPT ![r] = SaveDone(r, 500)]
  /\ UNCHANGED <<users, specs, versions, steps, transitions>>

\* one round of the edge loop, the node loop being over: an edge with an end
\* that is no submitted node is skipped with console.warn, for any other edge
\* tx.specStepTransition.create draws the id of its transition
SaveCreateTransitionWith(r, edge) ==
  /\ reqs[r].op = "save" /\ reqs[r].pc \in {"createStep", "createTransition"}
  /\ Append(reqs[r].edges, edge) \in EdgePrefixes
  /\ IF EdgeKept(edge, StepKeyToId(reqs[r].newSteps))
     THEN /\ seqs' = [seqs EXCEPT !.transition = seqs.transition + 1]
          /\ reqs' = [reqs EXCEPT ![r] =
                        [reqs[r] EXCEPT
                           !.pc = "createTransition",
                           !.edges = Append(reqs[r].edges, edge),
                           !.newTransitions =
                              Append(reqs[r].newTransitions,
                                     NewTransition(edge, seqs.transition + 1, reqs[r].versionId,
                                                   StepKeyToId(reqs[r].newSteps)))]]
     ELSE /\ seqs' = seqs
          /\ reqs' = [reqs EXCEPT ![r] =
                        [reqs[r] EXCEPT !.pc = "createTransition",
                                        !.edges = Append(reqs[r].edges, edge)]]
  /\ UNCHANGED <<users, specs, versions, steps, transitions>>

SaveCreateTransition(r) == \E edge \in EdgeInputs : SaveCreateTransitionWith(r, edge)

\* both loops are over: tx.specVersion.update of plainText and comment, which
\* takes the version row
SaveUpdateVersion(r) ==
  /\ reqs[r].op = "save" /\ reqs[r].pc \in {"createStep", "createTransition"}
  /\ VersionRowFree(r, reqs[r].versionId)
  /\ reqs' = [reqs EXCEPT ![r] = [reqs[r] EXCEPT !.pc = "commit"]]
  /\ UNCHANGED <<users, specs, versions, steps, transitions, seqs>>

\* what the commit of a save leaves in a table: the rows it deleted that are
\* still there go, the rows it created appear
AfterSave(table, deleted, created) ==
  InsertRows(SelectSeq(table, LAMBDA row : row.id \notin deleted), created)

\* the save has committed and is answered 200; warned counts the edges the
\* loop skipped with console.warn
SaveAnswered(r, warned) ==
  [op |-> "save", pc |-> "done", versionId |-> reqs[r].versionId,
   res |-> [status |-> 200], warned |-> warned]

\* COMMIT
SaveCommit(r) ==
  /\ reqs[r].op = "save" /\ reqs[r].pc = "commit"
  /\ steps' = AfterSave(steps, reqs[r].delS, reqs[r].newSteps)
  /\ transitions' = AfterSave(transitions, reqs[r].delT, reqs[r].newTransitions)
  /\ reqs' = [reqs EXCEPT ![r] =
                SaveAnswered(r, Len(reqs[r].edges) - Len(reqs[r].newTransitions))]
  /\ UNCHANGED <<users, specs, versions, seqs>>

(***************************************************************************)
(* POST /api/versions/:id/status                                           *)
(***************************************************************************)

allowedStatuses == {"draft", "in_review", "approved", "published", "archived"}

\* status of a request body
StatusInputs == allowedStatuses \cup {"deleted"}

\* variant: publishing a version archives the versions published before it
UpdateVersionStatusExclusive(rows, versionId, status) ==
  [i \in 1..Len(rows) |->
     IF rows[i].id = versionId THEN [rows[i] EXCEPT !.status = status]
     ELSE IF status = "published" /\ rows[i].status = "published"
          THEN [rows[i] EXCEPT !.status = "archived"]
          ELSE rows[i]]

\* prisma.specVersion.update({ where: { id }, data: { status } })
UpdateVersionStatus(rows, versionId, status) ==
  [i \in 1..Len(rows) |->
     IF rows[i].id = versionId THEN [rows[i] EXCEPT !.status = status] ELSE rows[i]]

\* prisma.spec.update({ where: { id }, data: { currentVersionId } })
UpdateCurrentVersion(rows, specId, versionId) ==
  [i \in 1..Len(rows) |->
     IF rows[i].id = specId THEN [rows[i] EXCEPT !.currentVersionId = versionId] ELSE rows[i]]

StatusDone(r) ==
  [op |-> "status", pc |-> "done", versionId |-> reqs[r].versionId,
   status |-> reqs[r].status, earlier |-> reqs[r].earlier, res |-> [status |-> 200]]

\* request arrives (a status outside allowedStatuses is answered 400); first
\* await: findUnique of the version (a missing one is answered 404).  Neither
\* answer changes anything.
StatusFind(r) ==
  /\ CanStart(r)
  /\ \E versionId \in VersionIdInputs, status \in StatusInputs :
       /\ status \in allowedStatuses
       /\ VersionExists(versionId)
       /\ reqs' = [reqs EXCEPT ![r] =
                     [op |-> "status", pc |-> "updateVersion", versionId |-> versionId,
                      status |-> status, specId |-> VersionRow(versionId).specId,
                      earlier |-> {}]]
  /\ UNCHANGED <<users, specs, versions, steps, transitions, seqs>>

\* requests that have set the status of a version to published
HavePublished ==
  {q \in DOMAIN reqs : /\ reqs[q].op = "status" /\ reqs[q].pc \in {"updateSpec", "done"}
                       /\ reqs[q].status = "published"}

\* variant: the spec is pointed at the version whatever the status is
StatusUpdateVersionAlwaysCurrent(r) ==
  /\ reqs[r].op = "status" /\ reqs[r].pc = "updateVersion"
  /\ VersionRowFree(r, reqs[r].versionId)
  /\ versions' = UpdateVersionStatus(versions, reqs[r].versionId, reqs[r].status)
  /\ reqs' = [reqs EXCEPT ![r] = [reqs[r] EXCEPT !.pc = "updateSpec",
                                                 !.earlier = HavePublished]]
  /\ UNCHANGED <<users, specs, steps, transitions, seqs>>

\* second await: the status of the version is updated.  `earlier` records the
\* requests that have published a version before this one, for stating which
\* of two was the later.
StatusUpdateVersion(r) ==
  /\ reqs[r].op = "status" /\ reqs[r].pc = "updateVersion"
  /\ VersionRowFree(r, reqs[r].versionId)
  /\ versions' = UpdateVersionStatus(versions, reqs[r].versionId, reqs[r].status)
  /\ reqs' = [reqs EXCEPT ![r] =
                IF reqs[r].status = "published"
                THEN [reqs[r] EXCEPT !.pc = "updateSpec", !.earlier = HavePublished]
                ELSE StatusDone(r)]
  /\ UNCHANGED <<users, specs, steps, transitions, seqs>>

\* if (status === 'published'): the spec is pointed at the version
StatusUpdateSpec(r) ==
  /\ reqs[r].op = "status" /\ reqs[r].pc = "updateSpec"
  /\ specs' = UpdateCurrentVersion(specs, reqs[r].specId, reqs[r].versionId)
  /\ reqs' = [reqs EXCEPT ![r] = StatusDone(r)]
  /\ UNCHANGED <<users, versions, steps, transitions, seqs>>

(***************************************************************************)
(* The service                                                             *)
(***************************************************************************)

Init ==
  /\ users = <<>>
  /\ specs = <<>>
  /\ versions = <<>>
  /\ steps = <<>>
  /\ transitions = <<>>
  /\ seqs = [user |-> 0, spec |-> 0, version |-> 0, step |-> 0, transition |-> 0]
  /\ reqs = [r \in 1..MaxReqs |-> Idle]

Next ==
  \/ \E r \in DOMAIN reqs : CreateUser(r)
  \/ \E r \in DOMAIN reqs : CreateSpec(r)
  \/ \E r \in DOMAIN reqs : CreateSpecVersion(r)
  \/ \E r \in DOMAIN reqs : CreateSpecUpdate(r)
  \/ \E r \in DOMAIN reqs : CreateSpecCommit(r)
  \/ \E r \in DOMAIN reqs : ForkFindBase(r)
  \/ \E r \in DOMAIN reqs : ForkFindLast(r)
  \/ \E r \in DOMAIN reqs : ForkCreateVersion(r)
  \/ \E r \in DOMAIN reqs : ForkFindSteps(r)
  \/ \E r \in DOMAIN reqs : ForkCreateStep(r)
  \/ \E r \in DOMAIN reqs : ForkFindTransitions(r)
  \/ \E r \in DOMAIN reqs : ForkCreateTransition(r)
  \/ \E r \in DOMAIN reqs : ForkCommit(r)
  \/ \E r \in DOMAIN reqs : SaveFind(r)
  \/ \E r \in DOMAIN reqs : SaveDeleteTransitions(r)
  \/ \E r \in DOMAIN reqs : SaveResumeTransitions(r)
  \/ \E r \in DOMAIN reqs : SaveDeleteSteps(r)
  \/ \E r \in DOMAIN reqs : SaveResumeSteps(r)
  \/ \E r \in DOMAIN reqs : SaveCreateStep(r)
  \/ \E r \in DOMAIN reqs : SaveCreateTransition(r)
  \/ \E r \in DOMAIN reqs : SaveUpdateVersion(r)
  \/ \E r \in DOMAIN reqs : SaveCommit(r)
  \/ \E r \in DOMAIN reqs : CompareLoadFrom(r)
  \/ \E r \in DOMAIN reqs : CompareLoadFromTransitions(r)
  \/ \E r \in DOMAIN reqs : CompareLoadTo(r)
  \/ \E r \in DOMAIN reqs : CompareLoadToTransitions(r)
  \/ \E r \in DOMAIN reqs : GraphLoad(r)
  \/ \E r \in DOMAIN reqs : GraphLoadTransitions(r)
  \/ \E r \in DOMAIN reqs : StatusFind(r)
  \/ \E r \in DOMAIN reqs : StatusUpdateVersion(r)
  \/ \E r \in DOMAIN reqs : StatusUpdateSpec(r)

Spec == Init /\ [][Next]_vars

(***************************************************************************)
(* Stored graphs the diff is exercised on                                  *)
(***************************************************************************)

\* bounds on the stored graphs that are compared: step rows of the two
\* versions together, transition rows of each version
MaxSteps == 3
MaxTrans == 1

BaseStep == [stepKey |-> "a", type |-> "action", title |-> "T", description |-> null,
             posX |-> 0, posY |-> 0]

Deviations(s) ==
  Cardinality({f \in {"type", "title", "description", "posX", "posY"} : s[f] # BaseStep[f]})

\* step contents that vary one compared or uncompared column at a time
StepValsS ==
  {s \in [stepKey : {"a", "b"}, type : {"action", "start"}, title : {"T", "U"},
          description : {null, "", "d"}, posX : {0, 1}, posY : {0, 1}] :
     Deviations(s) <= (IF s.stepKey = "a" THEN 1 ELSE 0)}

\* step keys and labels that interact with the edge key format: keys and
\* labels holding its separator, and the empty key
EdgeFamilies ==
  {[keys |-> <<"a", "a|">>, labels |-> {null, "", "|"}],
   [keys |-> <<"", "a">>, labels |-> {null, "|"}]}

\* the keys of one version's steps, in row order
KeyLayouts(keys) == {<<>>, <<keys[1]>>, <<keys[2]>>, keys}

StepValsE(keys) == [i \in 1..Len(keys) |-> [BaseStep EXCEPT !.stepKey = keys[i]]]

StepRow(id, versionId, s) ==
  [id |-> id, versionId |-> versionId, stepKey |-> s.stepKey, type |-> s.type,
   title |-> s.title, description |-> s.description, posX |-> s.posX, posY |-> s.posY]

\* version 1 holds the first na rows, version 2 the rest
StepRows(vals, na) ==
  [i \in 1..Len(vals) |-> StepRow(i, IF i <= na THEN 1 ELSE 2, vals[i])]

\* transitions a save can have stored for version v: both ends are steps of v
TransVals(rows, v, labels) ==
  [versionId : {v},
   fromStepId : {rows[i].id : i \in {j \in 1..Len(rows) : rows[j].versionId = v}},
   toStepId : {rows[i].id : i \in {j \in 1..Len(rows) : rows[j].versionId = v}},
   label : labels, condition : {null}]

TransRows(ta, tb) ==
  [i \in 1..(Len(ta) + Len(tb)) |->
     LET t == IF i <= Len(ta) THEN ta[i] ELSE tb[i - Len(ta)]
     IN [id |-> i, versionId |-> t.versionId, fromStepId |-> t.fromStepId,
         toStepId |-> t.toStepId, label |-> t.label, condition |-> t.condition]]

DraftVersion(id, specId, versionNumber, basedOn) ==
  [id |-> id, specId |-> specId, versionNumber |-> versionNumber, status |-> "draft",
   basedOnVersionId |-> basedOn]

\* one spec with two versions whose graphs are drawn from the sets above; a
\* version may hold the same transition twice
InitDiff ==
  /\ users = <<>>
  /\ specs = <<[id |-> 1, currentVersionId |-> 1]>>
  /\ versions = <<DraftVersion(1, 1, 1, 0), DraftVersion(2, 1, 2, 0)>>
  /\ reqs = [r \in {1} |-> Idle]
  /\ \/ \E n \in 0..MaxSteps, na \in 0..MaxSteps :
          /\ na <= n
          /\ \E vals \in [1..n -> StepValsS] : steps = StepRows(vals, na)
          /\ transitions = <<>>
     \/ \E fam \in EdgeFamilies :
          \E ka \in KeyLayouts(fam.keys), kb \in KeyLayouts(fam.keys) :
            /\ Len(ka) + Len(kb) <= MaxSteps
            /\ steps = StepRows(StepValsE(ka \o kb), Len(ka))
            /\ \E ta \in SeqsUpTo(TransVals(steps, 1, fam.labels), MaxTrans)
                           \cup {<<t, t>> : t \in TransVals(steps, 1, fam.labels)},
                  tb \in SeqsUpTo(TransVals(steps, 2, fam.labels), MaxTrans)
                           \cup {<<t, t>> : t \in TransVals(steps, 2, fam.labels)} :
                 transitions = TransRows(ta, tb)
  /\ seqs = [user |-> 0, spec |-> 1, version |-> 2, step |-> Len(steps), transition |-> Len(transitions)]

\* the compare requests followed here name the stored spec and two of its
\* versions, the ones that are answered with a diff
NextDiff ==
  \/ \E r \in DOMAIN reqs : /\ CompareLoadFrom(r)
                             /\ reqs'[r].specId \in RowIds(specs)
                             /\ {reqs'[r].from, reqs'[r].to} \subseteq RowIds(versions)
  \/ \E r \in DOMAIN reqs : CompareLoadFromTransitions(r)
  \/ \E r \in DOMAIN reqs : CompareLoadTo(r)
  \/ \E r \in DOMAIN reqs : CompareLoadToTransitions(r)

SpecDiff == InitDiff /\ [][NextDiff]_vars

(***************************************************************************)
(* One request served on a stored state                                    *)
(***************************************************************************)

\* graphs a save has stored for version 1: none, or two steps (one under the
\* empty key) and a transition between them
StoredBodies ==
  {[nodes |-> <<>>, edges |-> <<>>],
   [nodes |-> <<[id |-> "a", type |-> "start", title |-> "A", description |-> "d",
                 position |-> <<1, 2>>],
                [id |-> "", type |-> null, title |-> null, description |-> "",
                 position |-> <<>>]>>,
    edges |-> <<[source |-> "a", target |-> "", label |-> "x", condition |-> "c"]>>]}

\* either the empty store, or one spec with two versions in any status, either
\* of them the current one, version 1 holding a stored graph
InitOne ==
  /\ users = <<>>
  /\ reqs = [r \in {1} |-> Idle]
  /\ \/ /\ specs = <<>> /\ versions = <<>> /\ steps = <<>> /\ transitions = <<>>
        /\ seqs = [user |-> 0, spec |-> 0, version |-> 0, step |-> 0, transition |-> 0]
     \/ \E body \in StoredBodies, status1 \in allowedStatuses, status2 \in allowedStatuses,
           current \in {1, 2} :
          /\ specs = <<[id |-> 1, currentVersionId |-> current]>>
          /\ versions = <<[FirstVersion(1, 1) EXCEPT !.status = status1],
                          [DraftVersion(2, 1, 2, 1) EXCEPT !.status = status2]>>
          /\ steps = NewSteps(body.nodes, 1, 1)
          /\ transitions = NewTransitions(body.edges, StepKeyToId(steps), 1, 1)
          /\ seqs = [user |-> 0, spec |-> 1, version |-> 2, step |-> Len(steps),
                     transition |-> Len(transitions)]

\* with one request there is no other transaction to wait for
NextOne ==
  \/ \E r \in DOMAIN reqs : CreateUser(r)
  \/ \E r \in DOMAIN reqs : CreateSpec(r)
  \/ \E r \in DOMAIN reqs : CreateSpecVersion(r)
  \/ \E r \in DOMAIN reqs : CreateSpecUpdate(r)
  \/ \E r \in DOMAIN reqs : CreateSpecCommit(r)
  \/ \E r \in DOMAIN reqs : ForkFindBase(r)
  \/ \E r \in DOMAIN reqs : ForkFindLast(r)
  \/ \E r \in DOMAIN reqs : ForkCreateVersion(r)
  \/ \E r \in DOMAIN reqs : ForkFindSteps(r)
  \/ \E r \in DOMAIN reqs : ForkCreateStep(r)
  \/ \E r \in DOMAIN reqs : ForkFindTransitions(r)
  \/ \E r \in DOMAIN reqs : ForkCreateTransition(r)
  \/ \E r \in DOMAIN reqs : ForkCommit(r)
  \/ \E r \in DOMAIN reqs : SaveFind(r)
  \/ \E r \in DOMAIN reqs : SaveDeleteTransitions(r)
  \/ \E r \in DOMAIN reqs : SaveDeleteSteps(r)
  \/ \E r \in DOMAIN reqs : SaveCreateStep(r)
  \/ \E r \in DOMAIN reqs : SaveCreateTransition(r)
  \/ \E r \in DOMAIN reqs : SaveUpdateVersion(r)
  \/ \E r \in DOMAIN reqs : SaveCommit(r)
  \/ \E r \in DOMAIN reqs : CompareLoadFrom(r)
  \/ \E r \in DOMAIN reqs : CompareLoadFromTransitions(r)
  \/ \E r \in DOMAIN reqs : CompareLoadTo(r)
  \/ \E r \in DOMAIN reqs : CompareLoadToTransitions(r)
  \/ \E r \in DOMAIN reqs : GraphLoad(r)
  \/ \E r \in DOMAIN reqs : GraphLoadTransitions(r)
  \/ \E r \in DOMAIN reqs : StatusFind(r)
  \/ \E r \in DOMAIN reqs : StatusUpdateVersion(r)
  \/ \E r \in DOMAIN reqs : StatusUpdateSpec(r)

SpecOne == InitOne /\ [][NextOne]_vars

(***************************************************************************)
(* Two requests served together on a stored state                          *)
(***************************************************************************)

\* graphs a save has stored for version 1: as above, or a single step
StoredBodiesTwo ==
  StoredBodies \cup
    {[nodes |-> <<[id |-> "a", type |-> "start", title |-> "A", description |-> "d",
                   position |-> <<1, 2>>]>>,
      edges |-> <<>>]}

\* either the empty store, or one spec with its first version alone or with
\* a second version based on it, both drafts, version 1 holding a stored graph
InitTwo ==
  /\ users = <<>>
  /\ reqs = [r \in {1, 2} |-> Idle]
  /\ \/ /\ specs = <<>> /\ versions = <<>> /\ steps = <<>> /\ transitions = <<>>
        /\ seqs = [user |-> 0, spec |-> 0, version |-> 0, step |-> 0, transition |-> 0]
     \/ \E body \in StoredBodiesTwo, n \in {1, 2} :
          /\ specs = <<[id |-> 1, currentVersionId |-> 1]>>
          /\ versions = SubSeq(<<FirstVersion(1, 1), DraftVersion(2, 1, 2, 1)>>, 1, n)
          /\ steps = NewSteps(body.nodes, 1, 1)
          /\ transitions = NewTransitions(body.edges, StepKeyToId(steps), 1, 1)
          /\ seqs = [user |-> 0, spec |-> 1, version |-> n, step |-> Len(steps),
                     transition |-> Len(transitions)]

SpecTwo == InitTwo /\ [][Next]_vars

(***************************************************************************)
(* A creation, a fork or a status change served together with one other    *)
(* request on a stored state                                               *)
(***************************************************************************)

\* the requests that write versions and specs
VersionWriters == {"createSpec", "fork", "status"}

\* every other request that has arrived is one of those
BesideWriters(r) == \A q \in DOMAIN reqs \ {r} : reqs[q].op \in VersionWriters \cup {"none"}

\* a save, a compare or a GET graph arrives beside one of them only; with at
\* most one save there is no other transaction to wait for in a delete
NextPair ==
  \/ \E r \in DOMAIN reqs : CreateUser(r)
  \/ \E r \in DOMAIN reqs : CreateSpec(r)
  \/ \E r \in DOMAIN reqs : CreateSpecVersion(r)
  \/ \E r \in DOMAIN reqs : CreateSpecUpdate(r)
  \/ \E r \in DOMAIN reqs : CreateSpecCommit(r)
  \/ \E r \in DOMAIN reqs : ForkFindBase(r)
  \/ \E r \in DOMAIN reqs : ForkFindLast(r)
  \/ \E r \in DOMAIN reqs : ForkCreateVersion(r)
  \/ \E r \in DOMAIN reqs : ForkFindSteps(r)
  \/ \E r \in DOMAIN reqs : ForkCreateStep(r)
  \/ \E r \in DOMAIN reqs : ForkFindTransitions(r)
  \/ \E r \in DOMAIN reqs : ForkCreateTransition(r)
  \/ \E r \in DOMAIN reqs : ForkCommit(r)
  \/ \E r \in DOMAIN reqs : SaveFind(r) /\ BesideWriters(r)
  \/ \E r \in DOMAIN reqs : SaveDeleteTransitions(r)
  \/ \E r \in DOMAIN reqs : SaveDeleteSteps(r)
  \/ \E r \in DOMAIN reqs : SaveCreateStep(r)
  \/ \E r \in DOMAIN reqs : SaveCreateTransition(r)
  \/ \E r \in DOMAIN reqs : SaveUpdateVersion(r)
  \/ \E r \in DOMAIN reqs : SaveCommit(r)
  \/ \E r \in DOMAIN reqs : CompareLoadFrom(r) /\ BesideWriters(r)
  \/ \E r \in DOMAIN reqs : CompareLoadFromTransitions(r)
  \/ \E r \in DOMAIN reqs : CompareLoadTo(r)
  \/ \E r \in DOMAIN reqs : CompareLoadToTransitions(r)
  \/ \E r \in DOMAIN reqs : GraphLoad(r) /\ BesideWriters(r)
  \/ \E r \in DOMAIN reqs : GraphLoadTransitions(r)
  \/ \E r \in DOMAIN reqs : StatusFind(r)
  \/ \E r \in DOMAIN reqs : StatusUpdateVersion(r)
  \/ \E r \in DOMAIN reqs : StatusUpdateSpec(r)

SpecPair == InitTwo /\ [][NextPair]_vars

(***************************************************************************)
(* Properties of the diff                                                  *)
(***************************************************************************)

\* compare requests that were answered with a diff
Compared == {r \in DOMAIN reqs : reqs[r].op = "compare" /\ reqs[r].pc = "done"
                                 /\ reqs[r].res.status = 200}

KeysOf(rows) == {rows[i].stepKey : i \in 1..Len(rows)}

EntryKeys(entries) == {entries[i].stepKey : i \in 1..Len(entries)}

\* the step a snapshot stores under key k (the latest row, should a key repeat)
StepUnder(rows, k) ==
  rows[CHOOSE i \in 1..Len(rows) :
         /\ rows[i].stepKey = k
         /\ \A j \in 1..Len(rows) : rows[j].stepKey = k => j <= i]

NoText(x) == IF x = null THEN "" ELSE x

SameCompared(f, t) ==
  f.title = t.title /\ NoText(f.description) = NoText(t.description) /\ f.type = t.type

Carries(entry, row) ==
  /\ entry.stepKey = row.stepKey /\ entry.type = row.type
  /\ entry.title = row.title /\ entry.description = row.description

\* C1: comparing a snapshot with itself reports no added, removed or changed
\* step and no added or removed transition.
C1_DiffReflexive ==
  \A r \in Compared :
    reqs[r].fromVersion = reqs[r].toVersion =>
      /\ reqs[r].res.body.steps.added = <<>>
      /\ reqs[r].res.body.steps.removed = <<>>
      /\ reqs[r].res.body.steps.changed = <<>>
      /\ reqs[r].res.body.edges.added = <<>>
      /\ reqs[r].res.body.edges.removed = <<>>

\* a version with steps (one of them without description) and a transition
\* was compared with itself
C1_Witness ==
  \E r \in Compared :
    /\ reqs[r].fromVersion = reqs[r].toVersion
    /\ \E i \in 1..Len(reqs[r].toVersion.steps) : reqs[r].toVersion.steps[i].description = null
    /\ reqs[r].toVersion.transitions # <<>>

\* C2: the steps diff(A, B) reports as added are, as a set of entries, the
\* steps diff(B, A) reports as removed.
C2_AddedRemovedSymmetric ==
  \A r \in Compared :
    SeqToSet(reqs[r].res.body.steps.added)
      = SeqToSet(Diff(reqs[r].toVersion, reqs[r].fromVersion).steps.removed)

\* a compare reported an added step while the source version had steps too
C2_Witness ==
  \E r \in Compared :
    /\ reqs[r].res.body.steps.added # <<>>
    /\ reqs[r].fromVersion.steps # <<>>

\* C3: added holds exactly the keys of `to` that `from` lacks, each entry
\* carrying type, title and description of a `to` step with that key; removed
\* holds exactly the keys of `from` that `to` lacks, each entry carrying type,
\* title and description of a `from` step with that key.
C3_AddedRemovedExact ==
  \A r \in Compared :
    LET f == reqs[r].fromVersion.steps
        t == reqs[r].toVersion.steps
        added == reqs[r].res.body.steps.added
        removed == reqs[r].res.body.steps.removed
    IN /\ EntryKeys(added) = KeysOf(t) \ KeysOf(f)
       /\ EntryKeys(removed) = KeysOf(f) \ KeysOf(t)
       /\ \A i \in 1..Len(added) : \E j \in 1..Len(t) : Carries(added[i], t[j])
       /\ \A i \in 1..Len(removed) : \E j \in 1..Len(f) : Carries(removed[i], f[j])

\* a compare of two versions that each have a step key of their own
C3_Witness ==
  \E r \in Compared :
    /\ reqs[r].res.body.steps.added # <<>>
    /\ reqs[r].res.body.steps.removed # <<>>

\* C4: a key present in both snapshots has a changed entry, holding the two
\* (title, description, type) triples, exactly when title, description (absent
\* taken as empty) or type differ; otherwise it has no entry in any list, so a
\* move alone is never reported.
C4_ChangedIffComparedFieldsDiffer ==
  \A r \in Compared :
    LET f == reqs[r].fromVersion.steps
        t == reqs[r].toVersion.steps
        body == reqs[r].res.body.steps
    IN /\ EntryKeys(body.changed) \subseteq KeysOf(f) \cap KeysOf(t)
       /\ \A k \in KeysOf(f) \cap KeysOf(t) :
            /\ k \notin EntryKeys(body.added) \cup EntryKeys(body.removed)
            /\ (k \in EntryKeys(body.changed)) <=> ~SameCompared(StepUnder(f, k), StepUnder(t, k))
            /\ \A i \in 1..Len(body.changed) :
                 body.changed[i].stepKey = k =>
                   /\ body.changed[i].from = [title |-> StepUnder(f, k).title,
                                              description |-> StepUnder(f, k).description,
                                              type |-> StepUnder(f, k).type]
                   /\ body.changed[i].to = [title |-> StepUnder(t, k).title,
                                            description |-> StepUnder(t, k).description,
                                            type |-> StepUnder(t, k).type]

\* a compare of two versions of which one step only moved and another step
\* changed its title, description or type
C4_Witness ==
  \E r \in Compared :
    LET f == reqs[r].fromVersion.steps
        t == reqs[r].toVersion.steps
    IN /\ \E i \in 1..Len(f), j \in 1..Len(t) :
            /\ f[i].stepKey = t[j].stepKey
            /\ SameCompared(f[i], t[j])
            /\ f[i].posX # t[j].posX \/ f[i].posY # t[j].posY
            /\ reqs[r].res.body.steps.changed = <<>>
       /\ Len(f) = 1 /\ Len(t) = 1

\* tuples (fromKey, toKey, label) of a snapshot's transitions, absent label as ""
StepKeyOfId(rows, id) == rows[CHOOSE i \in 1..Len(rows) : rows[i].id = id].stepKey

TransitionTuples(version) ==
  {<<StepKeyOfId(version.steps, version.transitions[i].fromStepId),
     StepKeyOfId(version.steps, version.transitions[i].toStepId),
     NoText(version.transitions[i].label)>> : i \in 1..Len(version.transitions)}

EdgeTuples(entries) ==
  {<<entries[i].fromKey, entries[i].toKey, NoText(entries[i].label)>> : i \in 1..Len(entries)}

\* C5: transitions are identified by the tuple (fromKey, toKey, label), absent
\* label as the empty string: added is exactly the tuples of `to` that `from`
\* lacks, removed exactly the tuples of `from` that `to` lacks, whatever
\* characters keys and labels hold.
C5_TransitionsByTuple ==
  \A r \in Compared :
    /\ EdgeTuples(reqs[r].res.body.edges.added)
         = TransitionTuples(reqs[r].toVersion) \ TransitionTuples(reqs[r].fromVersion)
    /\ EdgeTuples(reqs[r].res.body.edges.removed)
         = TransitionTuples(reqs[r].fromVersion) \ TransitionTuples(reqs[r].toVersion)

\* the two loaded snapshots have the same steps, row for row, and the same
\* transitions except that transition i carries another label
OnlyRelabelled(f, t, i) ==
  /\ Len(f.steps) = Len(t.steps)
  /\ \A j \in 1..Len(f.steps) :
       /\ f.steps[j].stepKey = t.steps[j].stepKey
       /\ f.steps[j].type = t.steps[j].type
       /\ f.steps[j].title = t.steps[j].title
       /\ f.steps[j].description = t.steps[j].description
       /\ f.steps[j].posX = t.steps[j].posX
       /\ f.steps[j].posY = t.steps[j].posY
  /\ Len(f.transitions) = Len(t.transitions)
  /\ i \in 1..Len(f.transitions)
  /\ \A j \in 1..Len(f.transitions) :
       /\ \E a, b \in 1..Len(f.steps) :
            /\ f.transitions[j].fromStepId = f.steps[a].id
            /\ t.transitions[j].fromStepId = t.steps[a].id
            /\ f.transitions[j].toStepId = f.steps[b].id
            /\ t.transitions[j].toStepId = t.steps[b].id
       /\ f.transitions[j].condition = t.transitions[j].condition
       /\ j # i => f.transitions[j].label = t.transitions[j].label
  /\ NoText(f.transitions[i].label) # NoText(t.transitions[i].label)

\* C6: when two snapshots differ only in the label of one transition, the
\* diff reports that transition once as removed with the old label and once as
\* added with the new label, and reports no step.
C6_RelabelIsRemovePlusAdd ==
  \A r \in Compared :
    \A i \in 1..Len(reqs[r].fromVersion.transitions) :
      OnlyRelabelled(reqs[r].fromVersion, reqs[r].toVersion, i) =>
        LET f == reqs[r].fromVersion
            t == reqs[r].toVersion
            body == reqs[r].res.body
        IN /\ body.steps.added = <<>>
           /\ body.steps.removed = <<>>
           /\ body.steps.changed = <<>>
           /\ body.edges.removed
                = <<[fromKey |-> StepKeyOfId(f.steps, f.transitions[i].fromStepId),
                     toKey |-> StepKeyOfId(f.steps, f.transitions[i].toStepId),
                     label |-> f.transitions[i].label]>>
           /\ body.edges.added
                = <<[fromKey |-> StepKeyOfId(t.steps, t.transitions[i].fromStepId),
                     toKey |-> StepKeyOfId(t.steps, t.transitions[i].toStepId),
                     label |-> t.transitions[i].label]>>

(***************************************************************************)
(* Properties of fork and save                                             *)
(***************************************************************************)

NoEntries(body) ==
  /\ body.steps.added = <<>> /\ body.steps.removed = <<>> /\ body.steps.changed = <<>>
  /\ body.edges.added = <<>> /\ body.edges.removed = <<>>

\* C7: a fork of version V that commits while V still holds the steps and
\* transitions the fork read leaves V and the new version with an empty diff.
C7_ForkThenDiffEmpty ==
  [][\A r \in DOMAIN reqs :
       \A base \in {v \in RowIds(versions) : reqs[r].op = "fork" /\ reqs[r].pc = "commit"
                                               /\ v = reqs[r].baseVersion.id},
          fork \in {v \in KnownIds("version") : reqs[r].op = "fork" /\ reqs[r].pc = "commit"
                                                  /\ v = reqs[r].newVersion.id} :
         (/\ ForkCommit(r)
          /\ StepsOf(base) = reqs[r].baseSteps
          /\ TransitionsOf(base) = reqs[r].baseTransitions)
         => NoEntries(Diff(FindVersionWithGraph(base), FindVersionWithGraph(fork))')]_vars

\* what a snapshot holds, surrogate ids aside
StepContents(rows) ==
  [i \in 1..Len(rows) |->
     [stepKey |-> rows[i].stepKey, type |-> rows[i].type, title |-> rows[i].title,
      description |-> rows[i].description, posX |-> rows[i].posX, posY |-> rows[i].posY]]

TransitionContents(stepRows, transitionRows) ==
  [i \in 1..Len(transitionRows) |->
     [fromKey |-> StepKeyOfId(stepRows, transitionRows[i].fromStepId),
      toKey |-> StepKeyOfId(stepRows, transitionRows[i].toStepId),
      label |-> transitionRows[i].label, condition |-> transitionRows[i].condition]]

LargestVersionNumber(specId) ==
  CHOOSE n \in {versions[i].versionNumber : i \in {j \in 1..Len(versions) : versions[j].specId = specId}} :
    \A i \in 1..Len(versions) : versions[i].specId = specId => versions[i].versionNumber <= n

\* C8: a fork of version V that succeeds adds exactly one version: a draft
\* numbered one above the largest number of the spec, based on V, whose steps
\* and transitions have the keys, contents and positions of V's; V keeps its
\* snapshot and status.
C8_ForkCopiesVersion ==
  [][\A r \in DOMAIN reqs :
       \A base \in {v \in RowIds(versions) : reqs[r].op = "fork" /\ reqs[r].pc = "commit"
                                               /\ v = reqs[r].baseVersion.id},
          fork \in {v \in KnownIds("version") : reqs[r].op = "fork" /\ reqs[r].pc = "commit"
                                                  /\ v = reqs[r].newVersion.id} :
         ForkCommit(r)
         => /\ reqs'[r].res.status = 201
            /\ versions' = InsertRows(versions,
                                      <<[id |-> fork, specId |-> VersionRow(base).specId,
                                         versionNumber |->
                                           LargestVersionNumber(VersionRow(base).specId) + 1,
                                         status |-> "draft", basedOnVersionId |-> base]>>)
            /\ StepContents(StepsOf(fork))' = StepContents(StepsOf(base))'
            /\ TransitionContents(StepsOf(fork), TransitionsOf(fork))'
                 = TransitionContents(StepsOf(base), TransitionsOf(base))'
            /\ StepsOf(base)' = StepsOf(base)
            /\ TransitionsOf(base)' = TransitionsOf(base)]_vars

\* C9: no two versions of a spec carry the same versionNumber.
C9_VersionNumbersUnique ==
  \A i, j \in 1..Len(versions) :
    (i # j /\ versions[i].specId = versions[j].specId)
      => versions[i].versionNumber # versions[j].versionNumber

\* the step a save is to store for a submitted node
ExpectedStep(node) ==
  [stepKey |-> node.id,
   type |-> IF node.type \in {null, ""} THEN "action" ELSE node.type,
   title |-> NoText(node.title),
   description |-> IF node.description = "" THEN null ELSE node.description,
   posX |-> IF node.position = <<>> THEN 0 ELSE node.position[1],
   posY |-> IF node.position = <<>> THEN 0 ELSE node.position[2]]

\* the transitions a save is to store: the submitted edges between submitted nodes
ExpectedTransitions(nodes, edges) ==
  LET ids == {nodes[i].id : i \in 1..Len(nodes)}
      kept == SelectSeq(edges, LAMBDA e : e.source \in ids /\ e.target \in ids)
  IN [i \in 1..Len(kept) |->
        [fromKey |-> kept[i].source, toKey |-> kept[i].target,
         label |-> IF kept[i].label = "" THEN null ELSE kept[i].label,
         condition |-> IF kept[i].condition = "" THEN null ELSE kept[i].condition]]

\* C10: when a save of version V commits, V holds one step per submitted node
\* and the submitted edges between submitted nodes, no row of its earlier
\* snapshot, and every other version holds what it held.
C10_SaveReplacesSnapshot ==
  [][\A r \in DOMAIN reqs :
       \A body \in {reqs[q] : q \in {q \in {r} : reqs[q].op = "save" /\ reqs[q].pc = "commit"}} :
         SaveCommit(r)
         => /\ reqs'[r].res.status = 200
            /\ StepContents(StepsOf(body.versionId))'
                 = [i \in 1..Len(body.nodes) |-> ExpectedStep(body.nodes[i])]
            /\ TransitionContents(StepsOf(body.versionId), TransitionsOf(body.versionId))'
                 = ExpectedTransitions(body.nodes, body.edges)
            /\ RowIds(StepsOf(body.versionId))' \cap RowIds(steps) = {}
            /\ RowIds(TransitionsOf(body.versionId))' \cap RowIds(transitions) = {}
            /\ \A w \in RowIds(versions) \ {body.versionId} :
                 /\ StepsOf(w)' = StepsOf(w)
                 /\ TransitionsOf(w)' = TransitionsOf(w)]_vars

(***************************************************************************)
(* Properties of readers, saves and forks running together                 *)
(***************************************************************************)

\* C11: a GET graph of version V answers with the complete graph V held when
\* the read began or with the complete graph V holds when the read ends,
\* never with an empty or mixed graph in between, whatever saves of V run or
\* fail meanwhile.
C11_ReaderSeesCompleteSnapshot ==
  [][\A r \in DOMAIN reqs :
       \A v \in {w \in RowIds(versions) : reqs[r].op = "graph"
                                            /\ reqs[r].pc = "loadTransitions"
                                            /\ w = reqs[r].versionId} :
         \A before \in {GraphResponse(reqs[q].version.steps, reqs[q].stored) :
                          q \in {q \in {r} : reqs[q].op = "graph"
                                              /\ reqs[q].pc = "loadTransitions"}},
            after \in {GraphResponse(StepsOf(v), TransitionsOf(v))} :
           GraphLoadTransitions(r) => reqs'[r].res \in {before, after}]_vars

\* what version v holds, surrogate ids aside
GraphContents(v) ==
  [steps |-> StepContents(StepsOf(v)),
   transitions |-> TransitionContents(StepsOf(v), TransitionsOf(v))]

\* C12: when a save of version V commits after another save of V has
\* succeeded, V holds exactly the graph of one of the two: the one just
\* submitted or the one the earlier save left, never a union or mixture.
C12_ConcurrentSavesLastWriteWins ==
  [][\A r \in DOMAIN reqs :
       \A body \in {reqs[q] : q \in {q \in {r} : reqs[q].op = "save" /\ reqs[q].pc = "commit"}} :
         (/\ SaveCommit(r)
          /\ \E q \in DOMAIN reqs \ {r} :
               /\ reqs[q].op = "save" /\ reqs[q].pc = "done"
               /\ reqs[q].versionId = body.versionId /\ reqs[q].res.status = 200)
         => GraphContents(body.versionId)' \in
              {[steps |-> [i \in 1..Len(body.nodes) |-> ExpectedStep(body.nodes[i])],
                transitions |-> ExpectedTransitions(body.nodes, body.edges)],
               GraphContents(body.versionId)}]_vars

\* C13: a fork changes the stored versions, steps and transitions in one step
\* only, its commit, and then the new version is there with a copy of every
\* step and every transition it read; a fork that is under way or has failed,
\* at the version, a step or a transition, has stored nothing.
C13_ForkAllOrNothing ==
  [][\A r \in DOMAIN reqs :
       (reqs[r].op = "fork" /\ reqs[r].pc # "done" /\ reqs'[r] # reqs[r])
       => IF reqs'[r].pc = "done" /\ reqs'[r].res.status = 201
          THEN \A fork \in {v \in KnownIds("version") : v = reqs[r].newVersion.id} :
                 /\ fork \notin RowIds(versions) \cup {steps[i].versionId : i \in 1..Len(steps)}
                                                  \cup {transitions[i].versionId :
                                                          i \in 1..Len(transitions)}
                 /\ fork \in RowIds(versions')
                 /\ StepContents(StepsOf(fork))' = StepContents(reqs[r].newSteps)
                 /\ Len(StepsOf(fork))' = Len(reqs[r].baseSteps)
                 /\ Len(TransitionsOf(fork))' = Len(reqs[r].baseTransitions)
          ELSE UNCHANGED <<users, specs, versions, steps, transitions>>]_vars

\* a fork that had copied two steps has failed at the copy of a transition:
\* the ids it drew are spent, and only the two steps of a save are stored
C13_Witness ==
  /\ \E r \in DOMAIN reqs :
       reqs[r].op = "fork" /\ reqs[r].pc = "done" /\ reqs[r].res.status = 500
  /\ \E r \in DOMAIN reqs :
       reqs[r].op = "save" /\ reqs[r].pc = "done" /\ reqs[r].res.status = 200
  /\ seqs.version = 3 /\ Len(versions) = 2
  /\ seqs.step = 6 /\ Len(steps) = 2

(***************************************************************************)
(* Properties of a save, a status change and a creation                    *)
(***************************************************************************)

RowsWithIds(rows, ids) == SelectSeq(rows, LAMBDA row : row.id \in ids)

\* the submitted edges with an end that is not the id of a submitted node
Dangling(nodes, edges) ==
  SelectSeq(edges, LAMBDA e : \/ \A i \in 1..Len(nodes) : nodes[i].id # e.source
                              \/ \A i \in 1..Len(nodes) : nodes[i].id # e.target)

\* C14: a save whose edges include some with a source or target that is no
\* submitted node is answered 200 all the same: the edge loop goes on after
\* such an edge and creates nothing for it, and the commit stores one step per
\* node and every other edge; the save only warns about the ones it leaves out.
C14_DanglingEdgesDropped ==
  [][\A r \in DOMAIN reqs :
       /\ \A edge \in EdgeInputs :
            \A nodes \in {reqs[q].nodes :
                            q \in {q \in {r} : reqs[q].op = "save"
                                                /\ reqs[q].pc \in {"createStep", "createTransition"}}} :
              (SaveCreateTransitionWith(r, edge) /\ Dangling(nodes, <<edge>>) # <<>>)
              => /\ reqs'[r].pc = "createTransition"
                 /\ reqs'[r].newTransitions = reqs[r].newTransitions
                 /\ seqs' = seqs
       /\ \A body \in {reqs[q] : q \in {q \in {r} : reqs[q].op = "save" /\ reqs[q].pc = "commit"}} :
            (SaveCommit(r) /\ Dangling(body.nodes, body.edges) # <<>>)
            => /\ reqs'[r].res.status = 200
               /\ reqs'[r].warned = Len(Dangling(body.nodes, body.edges))
               /\ StepContents(RowsWithIds(steps, RowIds(body.newSteps)))'
                    = [i \in 1..Len(body.nodes) |-> ExpectedStep(body.nodes[i])]
               /\ TransitionContents(RowsWithIds(steps, RowIds(body.newSteps)),
                                      RowsWithIds(transitions, RowIds(body.newTransitions)))'
                    = ExpectedTransitions(body.nodes, body.edges)]_vars

\* a save of two nodes has stored an edge between them and left another out
C14_Witness ==
  \E r \in DOMAIN reqs :
    /\ reqs[r].op = "save" /\ reqs[r].pc = "done" /\ reqs[r].res.status = 200
    /\ reqs[r].warned = 1
    /\ Len(StepsOf(reqs[r].versionId)) = 2
    /\ Len(TransitionsOf(reqs[r].versionId)) = 1

\* the rows with another id, as they are
OtherRows(rows, id) == SelectSeq(rows, LAMBDA row : row.id # id)

RowOf(rows, id) == CHOOSE row \in {rows[i] : i \in 1..Len(rows)} : row.id = id

\* C15: a status change of an existing version to one of the five statuses
\* is answered 200 whatever the status was, and sets the status of that
\* version only; published then points the version's spec at it, any other
\* status leaves every spec as it was.
C15_SetStatus ==
  [][\A r \in DOMAIN reqs :
       \A v \in {w \in RowIds(versions) : reqs[r].op = "status" /\ w = reqs[r].versionId},
          s \in {t \in allowedStatuses : reqs[r].op = "status" /\ t = reqs[r].status} :
         /\ StatusUpdateVersion(r)
            => /\ RowOf(versions, v)' = [RowOf(versions, v) EXCEPT !.status = s]
               /\ OtherRows(versions, v)' = OtherRows(versions, v)
               /\ Len(versions') = Len(versions)
               /\ specs' = specs
               /\ IF s = "published"
                  THEN reqs'[r].pc = "updateSpec"
                  ELSE reqs'[r].pc = "done" /\ reqs'[r].res.status = 200
         /\ StatusUpdateSpec(r)
            => /\ s = "published"
               /\ RowOf(specs, RowOf(versions, v).specId)'
                   = [RowOf(specs, RowOf(versions, v).specId) EXCEPT !.currentVersionId = v]
               /\ OtherRows(specs, RowOf(versions, v).specId)'
                   = OtherRows(specs, RowOf(versions, v).specId)
               /\ versions' = versions
               /\ reqs'[r].pc = "done" /\ reqs'[r].res.status = 200]_vars

\* version 2 was published while version 1 was the published, current one
C15_Witness ==
  \E r \in DOMAIN reqs :
    /\ reqs[r].op = "status" /\ reqs[r].pc = "done" /\ reqs[r].res.status = 200
    /\ reqs[r].status = "published" /\ reqs[r].versionId = 2
    /\ \E i \in 1..Len(versions) : versions[i].id = 1 /\ versions[i].status = "published"
    /\ \E i \in 1..Len(versions) : versions[i].id = 2 /\ versions[i].status = "published"
    /\ \E i \in 1..Len(specs) : specs[i].currentVersionId = 2

\* C16: a creation changes the stored specs, versions, steps and transitions
\* in one step only, its commit, which is answered 201 and adds one spec and
\* one version of it: number 1, draft, without steps or transitions, and the
\* spec's current version.  A creation that is under way or has failed has
\* added neither.
C16_CreateSpecAtomic ==
  [][\A r \in DOMAIN reqs :
       (reqs'[r] # reqs[r] /\ reqs'[r].op = "createSpec")
       => IF reqs'[r].pc = "done" /\ reqs'[r].res.status = 201
          THEN \A specId \in {i \in KnownIds("spec") : i = reqs[r].spec.id},
                  versionId \in {i \in KnownIds("version") : i = reqs[r].version.id} :
                 /\ specId \notin RowIds(specs) /\ versionId \notin RowIds(versions)
                 /\ specs' = InsertRows(specs, <<[id |-> specId, currentVersionId |-> versionId]>>)
                 /\ versions' = InsertRows(versions,
                                           <<[id |-> versionId, specId |-> specId,
                                              versionNumber |-> 1, status |-> "draft",
                                              basedOnVersionId |-> 0]>>)
                 /\ \A i \in 1..Len(versions) : versions[i].specId # specId
                 /\ StepsOf(versionId)' = <<>>
                 /\ TransitionsOf(versionId)' = <<>>
                 /\ UNCHANGED <<users, steps, transitions>>
          ELSE /\ reqs'[r].pc = "done" => reqs'[r].res.status = 500
               /\ UNCHANGED <<users, specs, versions, steps, transitions>>]_vars

\* a creation was answered 201 and the store holds its spec and its one
\* version, which has no steps
C16_Witness ==
  \E r \in DOMAIN reqs :
    /\ reqs[r].op = "createSpec" /\ reqs[r].pc = "done" /\ reqs[r].res.status = 201
    /\ reqs[r].res.version.versionNumber = 1
    /\ specs = <<[id |-> 1, currentVersionId |-> reqs[r].res.version.id]>>
    /\ versions = <<reqs[r].res.version>>
    /\ steps = <<>> /\ transitions = <<>>

(***************************************************************************)
(* Invariants of the stored graphs                                         *)
(***************************************************************************)

\* C17: no two stored steps of one version have the same stepKey, whatever
\* creations, saves (a node list may repeat an id) and forks have run.
C17_StepKeysUnique ==
  \A i, j \in 1..Len(steps) :
    (i # j /\ steps[i].versionId = steps[j].versionId) => steps[i].stepKey # steps[j].stepKey

\* both ends of every stored transition are stored steps of its version
EndsAreStepsOfVersion ==
  \A i \in 1..Len(transitions) :
    /\ transitions[i].fromStepId \in RowIds(StepsOf(transitions[i].versionId))
    /\ transitions[i].toStepId \in RowIds(StepsOf(transitions[i].versionId))

\* every edge of an answered GET graph starts and ends at a node of the answer
EdgesJoinReturnedNodes ==
  \A r \in DOMAIN reqs :
    (reqs[r].op = "graph" /\ reqs[r].pc = "done" /\ reqs[r].res.status = 200)
    => \A i \in 1..Len(reqs[r].res.edges) :
         /\ \E n \in 1..Len(reqs[r].res.nodes) :
              reqs[r].res.nodes[n].id = reqs[r].res.edges[i].source
         /\ \E n \in 1..Len(reqs[r].res.nodes) :
              reqs[r].res.nodes[n].id = reqs[r].res.edges[i].target

\* C18: both ends of every stored transition are stored steps of the same
\* version, so that a GET graph never answers with an edge whose source or
\* target is not one of the nodes it answers with.
C18_TransitionsReferToSteps == EndsAreStepsOfVersion /\ EdgesJoinReturnedNodes

(***************************************************************************)
(* Text (frontend/src/App.jsx)                                             *)
(*                                                                         *)
(* A text is the sequence of its characters.  A Cyrillic letter is written *)
(* by a Latin stand-in of the same case:                                   *)
(*   а a   б b   в v   г g   д d   е e   з z   и i   й y   к k   л l   м m *)
(*   н n   о o   п p   р r   с s   т t   у u   х h   ц c   ч q   ш w   я x *)
(* "#" stands for the numero sign №, "~" for the ellipsis …, and the Latin *)
(* letters n, o, N, O of the markers "no" and "n" are "ln", "lo", "lN",    *)
(* "lO".  Digits, blanks, line breaks and punctuation are themselves.      *)
(***************************************************************************)

DigitChars == <<"0", "1", "2", "3", "4", "5", "6", "7", "8", "9">>

\* \d
Digit == {DigitChars[i] : i \in 1..Len(DigitChars)}

\* \s, the characters trim() removes
WhiteSpace == {" ", "\n"}

\* the lower-case letter of every upper-case letter
LowerOf ==
  LET upper == <<"A", "B", "V", "G", "D", "E", "Z", "I", "Y", "K", "L", "M", "N",
                 "O", "P", "R", "S", "T", "U", "F", "H", "C", "Q", "W", "X", "lN", "lO">>
      lower == <<"a", "b", "v", "g", "d", "e", "z", "i", "y", "k", "l", "m", "n",
                 "o", "p", "r", "s", "t", "u", "f", "h", "c", "q", "w", "x", "ln", "lo">>
  IN [c \in {upper[i] : i \in 1..Len(upper)} |->
        lower[CHOOSE i \in 1..Len(upper) : upper[i] = c]]

\* String.prototype.toLowerCase
ToLowerCase(text) ==
  [i \in 1..Len(text) |-> IF text[i] \in DOMAIN LowerOf THEN LowerOf[text[i]] ELSE text[i]]

RECURSIVE TrimStart(_)
TrimStart(text) ==
  IF text # <<>> /\ Head(text) \in WhiteSpace THEN TrimStart(Tail(text)) ELSE text

RECURSIVE TrimEnd(_)
TrimEnd(text) ==
  IF text # <<>> /\ text[Len(text)] \in WhiteSpace
  THEN TrimEnd(SubSeq(text, 1, Len(text) - 1)) ELSE text

\* String.prototype.trim
Trim(text) == TrimEnd(TrimStart(text))

\* text.startsWith(part, i - 1)
MatchAt(text, part, i) ==
  /\ i + Len(part) - 1 <= Len(text)
  /\ \A j \in 1..Len(part) : text[i + j - 1] = part[j]

\* String.prototype.includes
Includes(text, part) ==
  \E i \in 1..(Len(text) - Len(part) + 1) : MatchAt(text, part, i)

\* the value of a table cell that is not there
undefined == <<"<undefined>">>

\* a cell as a condition: the empty text and undefined are falsy
Truthy(cell) == cell # <<>> /\ cell # undefined

\* row[i]; columns are counted from 1, and 0 is the -1 of findIndex
Cell(row, i) == IF i \in 1..Len(row) THEN row[i] ELSE undefined

\* the run of digits text starts with
RECURSIVE DigitsPrefix(_)
DigitsPrefix(text) ==
  IF text # <<>> /\ Head(text) \in Digit
  THEN <<Head(text)>> \o DigitsPrefix(Tail(text)) ELSE <<>>

RECURSIVE DecimalValue(_)
DecimalValue(digits) ==
  IF digits = <<>> THEN 0
  ELSE 10 * DecimalValue(SubSeq(digits, 1, Len(digits) - 1))
       + (CHOOSE n \in 0..9 : DigitChars[n + 1] = digits[Len(digits)])

\* String(n) for a natural number
RECURSIVE DecimalText(_)
DecimalText(n) ==
  IF n < 10 THEN <<DigitChars[n + 1]>>
  ELSE DecimalText(n \div 10) \o <<DigitChars[(n % 10) + 1]>>

RECURSIVE Pow10(_)
Pow10(k) == IF k = 0 THEN 1 ELSE 10 * Pow10(k - 1)

\* text.replace(",", "."): the first comma only
ReplaceComma(text) ==
  IF \E i \in 1..Len(text) : text[i] = ","
  THEN LET first == CHOOSE i \in 1..Len(text) :
                      text[i] = "," /\ \A j \in 1..(i - 1) : text[j] # ","
       IN [i \in 1..Len(text) |-> IF i = first THEN "." ELSE text[i]]
  ELSE text

\* a number m / 10^k; NaN has no digits at all
NaN == [m |-> 0, k |-> -1]

isNaN(x) == x.k < 0

\* parseFloat: blanks, a sign, digits, a point and digits; what follows is
\* ignored.  The texts of the model hold no exponent and no "Infinity".
parseFloat(text) ==
  LET t == TrimStart(text)
      signed == t # <<>> /\ Head(t) \in {"-", "+"}
      u == IF signed THEN Tail(t) ELSE t
      whole == DigitsPrefix(u)
      rest == SubSeq(u, Len(whole) + 1, Len(u))
      frac == IF rest # <<>> /\ Head(rest) = "." THEN DigitsPrefix(Tail(rest)) ELSE <<>>
      value == DecimalValue(whole \o frac)
  IN IF whole = <<>> /\ frac = <<>> THEN NaN
     ELSE [m |-> IF signed /\ Head(t) = "-" THEN 0 - value ELSE value, k |-> Len(frac)]

Sign(n) == IF n < 0 THEN -1 ELSE IF n > 0 THEN 1 ELSE 0

\* the sign of a - b for two numbers
SignOfDifference(a, b) == Sign(a.m * Pow10(b.k) - b.m * Pow10(a.k))

(***************************************************************************)
(* extractTransitionsFromText                                              *)
(***************************************************************************)

\* the phrases and words the code looks for or writes: "переход к шаг" of
\* /переход к шаг[ау]\s+(\d+)/gi, "табличное описание шагов сценария", "шаг
\* сценария", "описание шага", "критерий успешности", "обработка ошибок",
\* "примечание для разработчика", "проверка", "проверяется", "Критерий: ",
\* "Ошибки: ", "Шаг "
Phrases ==
  [transition |-> <<"p", "e", "r", "e", "h", "o", "d", " ", "k", " ", "w", "a", "g">>,
   marker |-> <<"t", "a", "b", "l", "i", "q", "n", "o", "e", " ", "o", "p", "i", "s", "a", "n", "i", "e", " ", "w", "a", "g", "o", "v", " ", "s", "c", "e", "n", "a", "r", "i", "x">>,
   stepTitle |-> <<"w", "a", "g", " ", "s", "c", "e", "n", "a", "r", "i", "x">>,
   description |-> <<"o", "p", "i", "s", "a", "n", "i", "e", " ", "w", "a", "g", "a">>,
   criterion |-> <<"k", "r", "i", "t", "e", "r", "i", "y", " ", "u", "s", "p", "e", "w", "n", "o", "s", "t", "i">>,
   errors |-> <<"o", "b", "r", "a", "b", "o", "t", "k", "a", " ", "o", "w", "i", "b", "o", "k">>,
   devNote |-> <<"p", "r", "i", "m", "e", "q", "a", "n", "i", "e", " ", "d", "l", "x", " ", "r", "a", "z", "r", "a", "b", "o", "t", "q", "i", "k", "a">>,
   check |-> <<"p", "r", "o", "v", "e", "r", "k", "a">>,
   checked |-> <<"p", "r", "o", "v", "e", "r", "x", "e", "t", "s", "x">>,
   criterionPrefix |-> <<"K", "r", "i", "t", "e", "r", "i", "y", ":", " ">>,
   errorsPrefix |-> <<"O", "w", "i", "b", "k", "i", ":", " ">>,
   stepPrefix |-> <<"W", "a", "g", " ">>]

\* the blanks from position i on
RECURSIVE WhiteSpaceRun(_, _)
WhiteSpaceRun(text, i) ==
  IF i <= Len(text) /\ text[i] \in WhiteSpace THEN 1 + WhiteSpaceRun(text, i + 1) ELSE 0

\* the match of the pattern that starts at position i, if there is one:
\* the words, "а" or "у", blanks, digits.  The flag i compares letters
\* without their case: low is text in lower case.
MatchOfPattern(text, low, i) ==
  LET letter == i + Len(Phrases.transition)
      blanks == WhiteSpaceRun(text, letter + 1)
      digits == DigitsPrefix(SubSeq(text, letter + 1 + blanks, Len(text)))
  IN IF /\ MatchAt(low, Phrases.transition, i)
        /\ letter <= Len(text) /\ low[letter] \in {"a", "u"}
        /\ blanks > 0 /\ digits # <<>>
     THEN [found |-> TRUE, index |-> i, targetKey |-> digits,
           end |-> letter + blanks + Len(digits)]
     ELSE [found |-> FALSE]

\* context.replace(/[\s\.\,\;\:\-]+$/g, "")
RECURSIVE StripTail(_)
StripTail(text) ==
  IF text # <<>> /\ text[Len(text)] \in WhiteSpace \cup {".", ",", ";", ":", "-"}
  THEN StripTail(SubSeq(text, 1, Len(text) - 1)) ELSE text

\* the label of a match at position index: up to 80 characters before it,
\* trimmed, without the tail of punctuation, cut to the last 60
LabelBefore(text, index) ==
  LET contextStart == IF index - 80 > 1 THEN index - 80 ELSE 1
      context == Trim(StripTail(Trim(SubSeq(text, contextStart, index - 1))))
  IN IF Len(context) > 60
     THEN <<"~">> \o SubSeq(context, Len(context) - 59, Len(context))
     ELSE context

\* regex.exec in a loop: the matches from position i on, left to right,
\* each search resuming where the last match ended
RECURSIVE TransitionsFrom(_, _, _)
TransitionsFrom(text, low, i) ==
  IF i > Len(text) THEN <<>>
  ELSE IF MatchOfPattern(text, low, i).found
       THEN <<[targetKey |-> MatchOfPattern(text, low, i).targetKey,
               label |-> LabelBefore(text, i)]>>
            \o TransitionsFrom(text, low, MatchOfPattern(text, low, i).end + 1)
       ELSE TransitionsFrom(text, low, i + 1)

extractTransitionsFromText(rawText) ==
  IF ~Truthy(rawText) THEN <<>> ELSE TransitionsFrom(rawText, ToLowerCase(rawText), 1)

(***************************************************************************)
(* handleExcelFileChange: the table of the chosen sheet becomes a graph    *)
(***************************************************************************)

\* some cell of the row, in lower case, includes the phrase
RowIncludes(row, phrase) ==
  \E c \in 1..Len(row) : row[c] # undefined /\ Includes(ToLowerCase(row[c]), phrase)

Least(S) == CHOOSE n \in S : \A k \in S : n <= k

\* 3) and 4): the row of the column titles, counted from 1: the row after
\* the first one with the marker phrase in a cell, else the first row whose
\* first cell is "№", "no" or "n" and that holds "шаг сценария"; 0 when
\* there is none
headerRowIndex(rows) ==
  LET marked == {i \in 1..Len(rows) : RowIncludes(rows[i], Phrases.marker)}
      titled == {i \in 1..Len(rows) :
                   /\ rows[i] # <<>>
                   /\ ToLowerCase(Trim(rows[i][1])) \in {<<"#">>, <<"ln", "lo">>, <<"ln">>}
                   /\ RowIncludes(rows[i], Phrases.stepTitle)}
  IN IF marked # {} THEN Least(marked) + 1
     ELSE IF titled # {} THEN Least(titled)
     ELSE 0

\* header.findIndex over the cells in lower case: the first cell that starts
\* with the phrase (whole) or includes it; 0 when none does
FirstColumn(header, phrase, whole) ==
  LET hits == {c \in 1..Len(header) :
                 IF whole THEN MatchAt(ToLowerCase(header[c]), phrase, 1)
                 ELSE Includes(ToLowerCase(header[c]), phrase)}
  IN IF hits = {} THEN 0 ELSE Least(hits)

\* 5) the columns of the table
Columns(header) ==
  [num |-> FirstColumn(header, <<"#">>, TRUE),
   title |-> FirstColumn(header, Phrases.stepTitle, FALSE),
   descr |-> FirstColumn(header, Phrases.description, FALSE),
   crit |-> FirstColumn(header, Phrases.criterion, FALSE),
   err |-> FirstColumn(header, Phrases.errors, FALSE),
   devNote |-> FirstColumn(header, Phrases.devNote, FALSE)]

\* an optional column: "" when the header does not have it
OptionalCell(row, idx) == IF idx = 0 THEN <<>> ELSE Cell(row, idx)

\* rawX ? String(rawX) : ""
TextOf(cell) == IF Truthy(cell) THEN cell ELSE <<>>

\* String(rawNum).trim()
NumStr(row, cols) == Trim(Cell(row, cols.num))

\* parts.filter(Boolean).join("\n\n")
RECURSIVE JoinParts(_)
JoinParts(parts) ==
  IF parts = <<>> THEN <<>>
  ELSE IF Head(parts) = <<>> THEN JoinParts(Tail(parts))
  ELSE IF JoinParts(Tail(parts)) = <<>> THEN Head(parts)
  ELSE Head(parts) \o <<"\n", "\n">> \o JoinParts(Tail(parts))

\* the step of data row i; its description is the description cell, then
\* "Критерий: " and the criterion, then "Ошибки: " and the error handling
StepOfRow(row, cols, i) ==
  LET numStr == NumStr(row, cols)
      titleRaw == Cell(row, cols.title)
      rawDescr == OptionalCell(row, cols.descr)
      rawCrit == OptionalCell(row, cols.crit)
      rawErr == OptionalCell(row, cols.err)
      rawDevNote == OptionalCell(row, cols.devNote)
  IN [key |-> numStr,
      title |-> IF Truthy(titleRaw) /\ Trim(titleRaw) # <<>>
                THEN Trim(titleRaw) ELSE Phrases.stepPrefix \o numStr,
      description |->
        JoinParts(<<IF Truthy(rawDescr) THEN Trim(rawDescr) ELSE <<>>,
                    IF Truthy(rawCrit) THEN Phrases.criterionPrefix \o Trim(rawCrit) ELSE <<>>,
                    IF Truthy(rawErr) THEN Phrases.errorsPrefix \o Trim(rawErr) ELSE <<>>>>),
      originalIndex |-> i,
      rawDescr |-> TextOf(rawDescr),
      rawCrit |-> TextOf(rawCrit),
      rawDevNote |-> TextOf(rawDevNote)]

\* 6) the steps of the rows from position i on, in the order of the table:
\* of the rows that are not empty and whose number cell holds a digit
RECURSIVE StepsFrom(_, _, _)
StepsFrom(rows, cols, i) ==
  IF i > Len(rows) THEN <<>>
  ELSE IF rows[i] # <<>> /\ \E c \in 1..Len(NumStr(rows[i], cols)) :
                                NumStr(rows[i], cols)[c] \in Digit
       THEN <<StepOfRow(rows[i], cols, i)>> \o StepsFrom(rows, cols, i + 1)
       ELSE StepsFrom(rows, cols, i + 1)

\* variant: the steps stay in the order of the table
CompareStepsInTableOrder(a, b) == Sign(a.originalIndex - b.originalIndex)

\* the comparator of the sort: by number when both keys are numbers, by
\* position in the table otherwise
CompareSteps(a, b) ==
  LET aNum == parseFloat(ReplaceComma(a.key))
      bNum == parseFloat(ReplaceComma(b.key))
  IN IF ~isNaN(aNum) /\ ~isNaN(bNum)
     THEN SignOfDifference(aNum, bNum)
     ELSE Sign(a.originalIndex - b.originalIndex)

\* step goes behind the last step that does not come after it
InsertStep(sorted, step) ==
  LET at == IF \E j \in 1..Len(sorted) : CompareSteps(sorted[j], step) <= 0
            THEN CHOOSE j \in 1..Len(sorted) :
                   /\ CompareSteps(sorted[j], step) <= 0
                   /\ \A k \in (j + 1)..Len(sorted) : CompareSteps(sorted[k], step) > 0
            ELSE 0
  IN SubSeq(sorted, 1, at) \o <<step>> \o SubSeq(sorted, at + 1, Len(sorted))

\* the steps put in one after the other, each behind its equals: the order
\* of a stable sort under a comparator that orders the steps
RECURSIVE InsertSteps(_)
InsertSteps(list) ==
  IF list = <<>> THEN <<>>
  ELSE InsertStep(InsertSteps(SubSeq(list, 1, Len(list) - 1)), list[Len(list)])

\* the comparator applied to every pair of steps of the list: row i, column
\* j holds the sign of comparing step i with step j (\o <<>> makes tuples,
\* so each sign is worked out once)
Comparisons(list) ==
  [i \in 1..Len(list) |->
     [j \in 1..Len(list) |-> CompareSteps(list[i], list[j])] \o <<>>] \o <<>>

\* the comparator orders the steps of the list: a step equals itself, and
\* being equal, coming before and coming after carry over a step in between
ConsistentComparator(list) ==
  LET cmp == Comparisons(list)
  IN \A i, j, k \in 1..Len(list) :
       /\ cmp[i][i] = 0
       /\ cmp[i][j] = 0 => cmp[j][i] = 0
       /\ (cmp[i][j] = 0 /\ cmp[j][k] = 0) => cmp[i][k] = 0
       /\ (cmp[i][j] < 0 /\ cmp[j][k] < 0) => cmp[i][k] < 0
       /\ (cmp[i][j] > 0 /\ cmp[j][k] > 0) => cmp[i][k] > 0

\* every arrangement of the steps of the list
Arrangements(list) ==
  {[i \in 1..Len(list) |-> list[p[i]]] :
     p \in {q \in [1..Len(list) -> 1..Len(list)] :
              \A i, j \in 1..Len(list) : i # j => q[i] # q[j]}}

\* [...steps].sort(comparator), the orders it can return.  The sort is
\* stable, so under a comparator that orders the steps there is one.  A key
\* that is no number is compared by position while numbers are compared by
\* value, and the two need not agree (keys "3", "№2", "1" in this order):
\* then the order is left to the engine that runs the page, and every
\* arrangement of the steps is one it may return.
SortSteps(list) ==
  IF ConsistentComparator(list) THEN {InsertSteps(list)} ELSE Arrangements(list)

\* variant: the type of a step is read off its title wherever it stands
NodeOfStepByTitle(step, idx, n) ==
  [id |-> step.key, type |-> "block",
   position |-> [x |-> 100 + (idx - 1) * 60, y |-> 80 + (idx - 1) * 30],
   data |-> [title |-> step.title, description |-> step.description,
             realType |-> IF \/ Includes(ToLowerCase(step.title), Phrases.check)
                             \/ Includes(ToLowerCase(step.title), Phrases.checked)
                          THEN "condition"
                          ELSE IF idx = 1 THEN "start"
                          ELSE IF idx = n THEN "end" ELSE "action",
             diffStatus |-> null]]

\* the node of the step at position idx (from 1) of n sorted steps, with
\* the type shown for it
NodeOfStep(step, idx, n) ==
  [id |-> step.key, type |-> "block",
   position |-> [x |-> 100 + (idx - 1) * 60, y |-> 80 + (idx - 1) * 30],
   data |-> [title |-> step.title, description |-> step.description,
             realType |-> IF idx = 1 THEN "start"
                          ELSE IF idx = n THEN "end"
                          ELSE IF \/ Includes(ToLowerCase(step.title), Phrases.check)
                                  \/ Includes(ToLowerCase(step.title), Phrases.checked)
                               THEN "condition" ELSE "action",
             diffStatus |-> null]]

\* variant: the node made up for a target carries the number alone and ends
\* the scenario
PlaceholderNodeUntitled(targetKey, count) ==
  [id |-> targetKey, type |-> "block",
   position |-> [x |-> 400, y |-> 80 + count * 30],
   data |-> [title |-> targetKey, description |-> <<>>,
             realType |-> "end", diffStatus |-> null]]

\* the node made up for a target that is no step
PlaceholderNode(targetKey, count) ==
  [id |-> targetKey, type |-> "block",
   position |-> [x |-> 400, y |-> 80 + count * 30],
   data |-> [title |-> Phrases.stepPrefix \o targetKey, description |-> <<>>,
             realType |-> "action", diffStatus |-> null]]

\* the text that is searched for transitions of a step
textForParsing(step) ==
  (IF step.rawDescr # <<>> THEN step.rawDescr \o <<"\n">> ELSE <<>>)
  \o (IF step.rawCrit # <<>> THEN step.rawCrit \o <<"\n">> ELSE <<>>)
  \o step.rawDevNote

\* the inner loop over the transitions of one step; g holds newNodes,
\* explicitEdges and arr, the targets recorded for the key of the step
RECURSIVE AddTransitions(_, _, _)
AddTransitions(g, fromKey, found) ==
  IF found = <<>> THEN g
  ELSE LET tr == Head(found)
           nodes == IF \E i \in 1..Len(g.nodes) : g.nodes[i].id = tr.targetKey
                    THEN g.nodes
                    ELSE Append(g.nodes, PlaceholderNode(tr.targetKey, Len(g.nodes)))
       IN IF \E i \in 1..Len(g.arr) : g.arr[i].target = tr.targetKey
          THEN AddTransitions([g EXCEPT !.nodes = nodes], fromKey, Tail(found))
          ELSE AddTransitions(
                 [nodes |-> nodes,
                  arr |-> Append(g.arr, [target |-> tr.targetKey, label |-> tr.label]),
                  explicitEdges |-> Append(g.explicitEdges,
                                           [from |-> fromKey, to |-> tr.targetKey,
                                            label |-> tr.label])],
                 fromKey, Tail(found))

\* the loop over the sorted steps; g holds newNodes, explicitEdges and
\* outgoingByFrom
RECURSIVE AddExplicit(_, _)
AddExplicit(g, stepsLeft) ==
  IF stepsLeft = <<>> THEN g
  ELSE LET step == Head(stepsLeft)
           found == extractTransitionsFromText(textForParsing(step))
           arr == IF MapHas(g.outgoingByFrom, step.key)
                  THEN MapGet(g.outgoingByFrom, step.key) ELSE <<>>
           after == AddTransitions([nodes |-> g.nodes, arr |-> arr,
                                    explicitEdges |-> g.explicitEdges],
                                   step.key, found)
       IN IF found = <<>> THEN AddExplicit(g, Tail(stepsLeft))
          ELSE AddExplicit([nodes |-> after.nodes,
                            explicitEdges |-> after.explicitEdges,
                            outgoingByFrom |-> MapSet(g.outgoingByFrom, step.key, after.arr)],
                           Tail(stepsLeft))

\* `${from}->${to}`
EdgeKey(from, to) == from \o <<"-", ">">> \o to

LinearEdge(from, to) ==
  [id |-> EdgeKey(from.key, to.key), source |-> from.key, target |-> to.key]

\* 9.2: without explicit transitions every pair of neighbours, from position
\* i on, is joined
RECURSIVE LinearChain(_, _)
LinearChain(stepsSorted, i) ==
  IF i >= Len(stepsSorted) THEN <<>>
  ELSE <<LinearEdge(stepsSorted[i], stepsSorted[i + 1])>> \o LinearChain(stepsSorted, i + 1)

\* 9.3: with explicit transitions a pair is joined only when the key of its
\* first step has no recorded transitions and the edge is not there yet
RECURSIVE AddFallback(_, _, _, _, _)
AddFallback(newEdges, edgeKeySet, stepsSorted, outgoingByFrom, i) ==
  IF i >= Len(stepsSorted) THEN newEdges
  ELSE LET from == stepsSorted[i]
           to == stepsSorted[i + 1]
           ek == EdgeKey(from.key, to.key)
       IN IF ~MapHas(outgoingByFrom, from.key) /\ ek \notin edgeKeySet
          THEN AddFallback(Append(newEdges, LinearEdge(from, to)), edgeKeySet \cup {ek},
                           stepsSorted, outgoingByFrom, i + 1)
          ELSE AddFallback(newEdges, edgeKeySet, stepsSorted, outgoingByFrom, i + 1)

\* 9.1 to 9.3: the graph, given the sorted steps and what the loop over
\* them has gathered
GraphOfGathered(stepsSorted, g) ==
  [error |-> "none", nodes |-> g.nodes,
   edges |->
     IF g.explicitEdges = <<>> THEN LinearChain(stepsSorted, 1)
     ELSE AddFallback(
            [idx \in 1..Len(g.explicitEdges) |->
               [id |-> EdgeKey(g.explicitEdges[idx].from, g.explicitEdges[idx].to)
                       \o <<"-">> \o DecimalText(idx - 1),
                source |-> g.explicitEdges[idx].from,
                target |-> g.explicitEdges[idx].to,
                label |-> IF g.explicitEdges[idx].label = <<>> THEN undefined
                          ELSE g.explicitEdges[idx].label]],
            {EdgeKey(g.explicitEdges[idx].from, g.explicitEdges[idx].to) :
               idx \in 1..Len(g.explicitEdges)},
            stepsSorted, g.outgoingByFrom, 1)]

\* 8) and 9): the nodes of the sorted steps, then the transitions
GraphOfSteps(stepsSorted) ==
  GraphOfGathered(
    stepsSorted,
    AddExplicit([nodes |-> [idx \in 1..Len(stepsSorted) |->
                              NodeOfStep(stepsSorted[idx], idx, Len(stepsSorted))],
                 explicitEdges |-> <<>>, outgoingByFrom |-> <<>>],
                stepsSorted))

\* 6) to 9), given the steps of the table: the error that ends the handler,
\* or a graph for every order the sort can return
ImportSteps(stepList) ==
  IF stepList = <<>> THEN {[error |-> "NoStepsFound"]}
  ELSE {GraphOfSteps(stepsSorted) : stepsSorted \in SortSteps(stepList)}

\* 5) to 9), given the header row at position h
ImportTable(rows, h, cols) ==
  IF cols.num = 0 \/ cols.title = 0 THEN {[error |-> "MissingRequiredColumns"]}
  ELSE ImportSteps(StepsFrom(rows, cols, h + 1))

ImportFrom(rows, h) ==
  IF h = 0 THEN {[error |-> "NoHeaderFound"]}
  ELSE IF h > Len(rows) THEN {[error |-> "TypeError"]}
  ELSE ImportTable(rows, h, Columns(rows[h]))

\* what the handler can make of the rows of the sheet: a graph, or the error
\* that ends it
ImportRows(rows) ==
  IF rows = <<>> THEN {[error |-> "EmptySheet"]} ELSE ImportFrom(rows, headerRowIndex(rows))

(***************************************************************************)
(* The editor and the import of a sheet                                    *)
(***************************************************************************)

\* data rows of one sheet
MaxRows == 3

\* the row over the table, with "ТАБЛИЧНОЕ ОПИСАНИЕ ШАГОВ СЦЕНАРИЯ"
MarkerRow ==
  <<<<"T", "A", "B", "L", "I", "Q", "N", "O", "E", " ", "O", "P", "I", "S", "A", "N", "I", "E", " ", "W", "A", "G", "O", "V", " ", "S", "C", "E", "N", "A", "R", "I", "X">>,
     <<>>,
     <<>>,
     <<>>,
     <<>>,
     <<>>>>

\* the column titles: "№", "Шаг сценария", "Описание шага", "Критерий
\* успешности", "Обработка ошибок", "Примечание для разработчика"
HeaderRow ==
  <<<<"#">>,
     <<"W", "a", "g", " ", "s", "c", "e", "n", "a", "r", "i", "x">>,
     <<"O", "p", "i", "s", "a", "n", "i", "e", " ", "w", "a", "g", "a">>,
     <<"K", "r", "i", "t", "e", "r", "i", "y", " ", "u", "s", "p", "e", "w", "n", "o", "s", "t", "i">>,
     <<"O", "b", "r", "a", "b", "o", "t", "k", "a", " ", "o", "w", "i", "b", "o", "k">>,
     <<"P", "r", "i", "m", "e", "q", "a", "n", "i", "e", " ", "d", "l", "x", " ", "r", "a", "z", "r", "a", "b", "o", "t", "q", "i", "k", "a">>>>


\* data rows: number, title, description, criterion, error handling, note.
\* The fourth has the title "ПРОВЕРЯЕТСЯ".  Rows 5 to 8 speak of a transition
\* ("переход к шагу N"); in the fifth the words end the description and the
\* number starts the criterion; the seventh and the eighth have the same
\* number.  The ninth row has no number, and the number cell of the last,
\* "№2", holds a digit and is no number.
DataRows ==
  {<<<<"1">>,
     <<"A">>,
     <<>>,
     <<>>,
     <<>>,
     <<>>>>,
   <<<<"2">>,
     <<>>,
     <<"d">>,
     <<"c">>,
     <<"e">>,
     <<>>>>,
   <<<<"3">>,
     <<"P", "r", "o", "v", "e", "r", "k", "a">>,
     <<>>,
     <<>>,
     <<>>,
     <<>>>>,
   <<<<"2", ",", "5">>,
     <<"P", "R", "O", "V", "E", "R", "X", "E", "T", "S", "X">>,
     <<>>,
     <<>>,
     <<>>,
     <<>>>>,
   <<<<"1", "0">>,
     <<"D">>,
     <<"x", " ", "p", "e", "r", "e", "h", "o", "d", " ", "k", " ", "w", "a", "g", "u">>,
     <<"2">>,
     <<>>,
     <<>>>>,
   <<<<"1">>,
     <<"B">>,
     <<"p", "e", "r", "e", "h", "o", "d", " ", "k", " ", "w", "a", "g", "u", " ", "3">>,
     <<>>,
     <<>>,
     <<>>>>,
   <<<<"2">>,
     <<"C">>,
     <<"d", "a", ":", " ", "p", "e", "r", "e", "h", "o", "d", " ", "k", " ", "w", "a", "g", "u", " ", "1", ".", " ", "N", "e", "t", " ", "-", " ", "P", "E", "R", "E", "H", "O", "D", " ", "K", " ", "W", "A", "G", "A", " ", " ", "1">>,
     <<>>,
     <<>>,
     <<"p", "e", "r", "e", "h", "o", "d", " ", "k", " ", "w", "a", "g", "u", " ", "9", "9">>>>,
   <<<<"2">>,
     <<"F">>,
     <<"n", "e", "t", ":", " ", "p", "e", "r", "e", "h", "o", "d", " ", "k", " ", "w", "a", "g", "u", " ", "1", ";", " ", "p", "e", "r", "e", "h", "o", "d", " ", "k", " ", "w", "a", "g", "u", " ", "3">>,
     <<>>,
     <<>>,
     <<>>>>,
   <<<<>>,
     <<"T">>,
     <<>>,
     <<>>,
     <<>>,
     <<>>>>,
   <<<<"#", "2">>,
     <<"G">>,
     <<>>,
     <<>>,
     <<>>,
     <<>>>>}

\* the lists of up to MaxRows data rows, no row taken twice
RowLists ==
  {data \in SeqsUpTo(DataRows, MaxRows) :
     \A i, j \in 1..Len(data) : i # j => data[i] # data[j]}

\* the sheets of the files that are chosen: the rows over the table, then
\* the data rows.  The column titles may start with "No" in place of "№".
\* Without both rows over the table a sheet has at most one data row, and
\* with one of the data rows titled "D", "C", "F" and "T" at most two.
Sheets ==
  {sheet[1] \o sheet[2] :
     sheet \in {s \in {<<MarkerRow, HeaderRow>>, <<HeaderRow>>, <<MarkerRow>>, <<>>,
                        <<[HeaderRow EXCEPT ![1] = <<"lN", "lo">>]>>} \X RowLists :
                  /\ s[1] = <<MarkerRow, HeaderRow>> \/ Len(s[2]) <= 1
                  /\ \/ Len(s[2]) <= 2
                     \/ \A i \in 1..Len(s[2]) :
                          s[2][i][2] \notin {<<"D">>, <<"C">>, <<"F">>, <<"T">>}}}

\* callbacks of the editor that are called in one run, the imports among
\* them
MaxCalls == 2

\* the ids of specifications and of versions in the answers of the server
SpecIds == {"1"}
VersionIds == {"1", "2", "3"}

\* answers of GET /specs, each specification with its id and the id of its
\* published version (currentVersionId, null as long as none is published)
SpecsAnswers ==
  {<<>>} \cup {<<[id |-> "1", currentVersionId |-> version]>> : version \in {null, "1"}}

\* spec?.currentVersionId of specs.find((s) => s.id === specId)
currentVersionIdOf(specsOfRender, specId) ==
  IF \E k \in 1..Len(specsOfRender) : specsOfRender[k].id = specId
  THEN specsOfRender[CHOOSE k \in 1..Len(specsOfRender) :
                       /\ specsOfRender[k].id = specId
                       /\ \A j \in 1..(k - 1) : specsOfRender[j].id # specId].currentVersionId
  ELSE null

\* answers of GET /specs/:id/versions, as the ids of the versions in the
\* order of their numbers
VersionsAnswers == {<<>>, <<"1", "2">>, <<"1", "2", "3">>}

\* answers of GET /versions/:id/graph: a version without steps, and one with
\* a step "9" of no type and no description and a transition from it to
\* itself
GraphAnswers ==
  {[nodes |-> <<>>, edges |-> <<>>],
   [nodes |-> <<[id |-> <<"9">>, type |-> null, position |-> [x |-> 1, y |-> 2],
                 data |-> [title |-> <<"Z">>, description |-> null]]>>,
    edges |-> <<[id |-> <<"e", "1">>, source |-> <<"9">>, target |-> <<"9">>,
                 label |-> <<"L">>]>>]}

\* the calls of the run that are at the position pc: an await they wait
\* at, or the end of the callback
CallsAt(r, pc) ==
  IF reqs[r].op = "editor"
  THEN {i \in 1..Len(reqs[r].calls) : reqs[r].calls[i].pc = pc}
  ELSE {}

\* the state a callback reads after an await is the state of the render it
\* was made in: no state is kept by a callback that reads none
NoClosure ==
  [currentSpecId |-> null, currentVersionId |-> null, pendingPushVersionId |-> null]

\* the state of the render the callbacks called now were made in
Closure(r) ==
  [currentSpecId |-> reqs[r].currentSpecId,
   currentVersionId |-> reqs[r].currentVersionId,
   pendingPushVersionId |-> reqs[r].pendingPushVersionId]

\* a call at the position pc: an import that waits has the rows of its
\* sheet, a callback that reads state after an await the state of its
\* render, a call of loadVersionsForSpec the version to prefer, and the
\* call of saveGraph that has set saving and not yet reset it is marked
At(pc) ==
  [pc |-> pc, rows |-> <<>>, closure |-> NoClosure, preferredVersionId |-> null,
   saving |-> FALSE]

\* the editor after a callback is called that runs up to the position of
\* the call
Call(r, call) == [reqs[r] EXCEPT !.calls = Append(reqs[r].calls, call)]

\* the editor ed after the call i is over, and after loadVersionsForSpec has
\* returned to the callback that called it: saveGraph goes on with
\* setPendingPushVersionId(null) and setSaving(false), the others set
\* nothing more
Return(ed, i) ==
  IF ed.calls[i].saving
  THEN [ed EXCEPT !.calls[i] = At("done"), !.pendingPushVersionId = null, !.saving = FALSE]
  ELSE [ed EXCEPT !.calls[i] = At("done")]

\* the rows a sheet chosen now may have: the sheets chosen in one run have
\* together no more rows than the longest of the sheets, and rowsChosen
\* counts them
RowsLeft(r) == Len(<<MarkerRow, HeaderRow>>) + MaxRows - reqs[r].rowsChosen

\* variant: the canvas is cleared when the file is chosen
handleExcelFileChangeClearing(r) ==
  /\ reqs[r].op = "editor" /\ Len(reqs[r].calls) < MaxCalls
  /\ \E rows \in Sheets :
       /\ Len(rows) <= RowsLeft(r)
       /\ reqs' = [reqs EXCEPT ![r] =
                     [Call(r, [At("arrayBuffer") EXCEPT !.rows = rows])
                        EXCEPT !.loading = TRUE, !.error = null, !.nodes = <<>>,
                               !.edges = <<>>,
                               !.rowsChosen = reqs[r].rowsChosen + Len(rows)]]
  /\ UNCHANGED <<users, specs, versions, steps, transitions, seqs>>

\* the file input changes (without a file the handler returns at once):
\* setLoading(true), setError(null), and the handler waits for the bytes of
\* the file.  The input is not disabled while an import is under way.
handleExcelFileChange(r) ==
  /\ reqs[r].op = "editor" /\ Len(reqs[r].calls) < MaxCalls
  /\ \E rows \in Sheets :
       /\ Len(rows) <= RowsLeft(r)
       /\ reqs' = [reqs EXCEPT ![r] =
                     [Call(r, [At("arrayBuffer") EXCEPT !.rows = rows])
                        EXCEPT !.loading = TRUE, !.error = null,
                               !.rowsChosen = reqs[r].rowsChosen + Len(rows)]]
  /\ UNCHANGED <<users, specs, versions, steps, transitions, seqs>>

\* the bytes of a file are there: the sheet is read and either the graph is
\* put on the canvas (setNodes, setEdges) or the error is caught and shown
\* (setError); then setLoading(false)
handleExcelFileChangeSheet(r) ==
  /\ \E i \in CallsAt(r, "arrayBuffer") :
       \E result \in ImportRows(reqs[r].calls[i].rows) :
         reqs' = [reqs EXCEPT ![r] =
                    IF result.error = "none"
                    THEN [reqs[r] EXCEPT !.calls[i] = At("alert"), !.nodes = result.nodes,
                                         !.edges = result.edges, !.loading = FALSE]
                    ELSE [reqs[r] EXCEPT !.calls[i] = At("catch"), !.error = result.error,
                                         !.loading = FALSE]]
  /\ UNCHANGED <<users, specs, versions, steps, transitions, seqs>>

\* the nodes of an answer of GET /versions/:id/graph as loadGraph puts them
\* on the canvas: blocks, and a start block when there are none
GraphBlocks(nodes) ==
  IF nodes = <<>>
  THEN <<[id |-> <<"s", "t", "a", "r", "t", "-", "1">>,
          type |-> "block", position |-> [x |-> 100, y |-> 100],
          data |-> [title |-> <<"S", "t", "a", "r", "t">>,
                    description |-> <<>>, realType |-> "start",
                    diffStatus |-> null]]>>
  ELSE [k \in 1..Len(nodes) |->
          [id |-> nodes[k].id, type |-> "block",
           position |-> nodes[k].position,
           data |-> [title |-> nodes[k].data.title,
                     description |->
                       IF nodes[k].data.description = null THEN <<>>
                       ELSE nodes[k].data.description,
                     realType |->
                       IF nodes[k].type = null THEN "action" ELSE nodes[k].type,
                     diffStatus |-> null]]]

\* loadGraph is called, with the id of a version, by the call i that has
\* waited for the versions: setLoading(true), setError(null), and it waits
\* for the answer of GET /versions/:id
loadGraph(ed, i) ==
  [ed EXCEPT !.calls[i].pc = "getVersion", !.calls[i].preferredVersionId = null,
             !.loading = TRUE, !.error = null]

\* the answer of GET /versions/:id: with the version loadGraph goes on to
\* wait for the graph, with a failure it shows its error, setLoading(false),
\* and returns
loadGraphVersion(r) ==
  /\ \E i \in CallsAt(r, "getVersion"), ok \in BOOLEAN :
       reqs' = [reqs EXCEPT ![r] =
                  IF ok THEN [reqs[r] EXCEPT !.calls[i].pc = "getGraph"]
                  ELSE Return([reqs[r] EXCEPT !.error = "GraphLoadError",
                                              !.loading = FALSE], i)]
  /\ UNCHANGED <<users, specs, versions, steps, transitions, seqs>>

\* the answer of GET /versions/:id/graph: its nodes, as blocks, and its edges
\* are put on the canvas; with a failure the error is shown; then
\* setLoading(false), and loadGraph returns
loadGraphGraph(r) ==
  /\ \E i \in CallsAt(r, "getGraph") :
       \/ \E answer \in GraphAnswers :
            reqs' = [reqs EXCEPT ![r] =
                       Return([reqs[r] EXCEPT !.nodes = GraphBlocks(answer.nodes),
                                              !.edges = answer.edges,
                                              !.loading = FALSE], i)]
       \/ reqs' = [reqs EXCEPT ![r] =
                     Return([reqs[r] EXCEPT !.error = "GraphLoadError",
                                            !.loading = FALSE], i)]
  /\ UNCHANGED <<users, specs, versions, steps, transitions, seqs>>

\* the version loadVersionsForSpec chooses: the preferred one when the list
\* has it, else the last of the list
chosenVersion(versionsFromApi, preferredVersionId) ==
  IF \E k \in 1..Len(versionsFromApi) : versionsFromApi[k] = preferredVersionId
  THEN preferredVersionId
  ELSE versionsFromApi[Len(versionsFromApi)]

\* the answer of GET /specs/:id/versions, before which loadVersionsForSpec
\* sets nothing: the versions are kept; without versions the canvas is
\* cleared, with versions one is chosen and loadGraph is called for it;
\* with a failure the error is shown
loadVersionsForSpec(r) ==
  /\ \E i \in CallsAt(r, "getVersions") :
       \/ \E versionsFromApi \in VersionsAnswers :
            IF versionsFromApi = <<>>
            THEN reqs' = [reqs EXCEPT ![r] =
                            Return([reqs[r] EXCEPT !.versions = versionsFromApi,
                                                   !.currentVersionId = null,
                                                   !.nodes = <<>>, !.edges = <<>>], i)]
            ELSE reqs' = [reqs EXCEPT ![r] =
                            loadGraph([reqs[r] EXCEPT
                                         !.versions = versionsFromApi,
                                         !.currentVersionId =
                                           chosenVersion(versionsFromApi,
                                                         reqs[r].calls[i].preferredVersionId)],
                                      i)]
       \/ reqs' = [reqs EXCEPT ![r] =
                     Return([reqs[r] EXCEPT !.error = "VersionsLoadError"], i)]
  /\ UNCHANGED <<users, specs, versions, steps, transitions, seqs>>

\* a specification of the list is chosen: setCurrentSpecId, and
\* loadVersionsForSpec is called with its published version as the one to
\* prefer and waits for the answer of GET /specs/:id/versions
handleSpecChange(r) ==
  /\ reqs[r].op = "editor" /\ Len(reqs[r].calls) < MaxCalls
  /\ \E k \in 1..Len(reqs[r].specs) :
       reqs' = [reqs EXCEPT ![r] =
                  [Call(r, [At("getVersions") EXCEPT
                              !.preferredVersionId =
                                currentVersionIdOf(reqs[r].specs, reqs[r].specs[k].id)])
                     EXCEPT !.currentSpecId = reqs[r].specs[k].id]]
  /\ UNCHANGED <<users, specs, versions, steps, transitions, seqs>>

\* loadSpecs is called, by the effect once the editor is mounted and when
\* another specification is chosen, or by the button, and waits for the
\* answer of GET /specs.  The button is disabled while loading is set, the
\* effect is not held back; here loadSpecs may be called at any time, which
\* leaves out no run of the editor.
loadSpecs(r) ==
  /\ reqs[r].op = "editor" /\ Len(reqs[r].calls) < MaxCalls
  /\ reqs' = [reqs EXCEPT ![r] =
                Call(r, [At("getSpecs") EXCEPT !.closure = Closure(r)])]
  /\ UNCHANGED <<users, specs, versions, steps, transitions, seqs>>

\* the answer of GET /specs: the list is kept, and when no specification was
\* chosen and the list has one, the first is chosen and loadVersionsForSpec
\* is called for it with its published version as the one to prefer; with
\* a failure the error is shown
loadSpecsSpecs(r) ==
  /\ \E i \in CallsAt(r, "getSpecs") :
       \/ \E specsFromApi \in SpecsAnswers :
            reqs' = [reqs EXCEPT ![r] =
                       IF reqs[r].calls[i].closure.currentSpecId = null /\ specsFromApi # <<>>
                       THEN [reqs[r] EXCEPT
                               !.specs = specsFromApi,
                               !.currentSpecId = specsFromApi[1].id,
                               !.calls[i] =
                                 [At("getVersions") EXCEPT
                                    !.preferredVersionId = specsFromApi[1].currentVersionId]]
                       ELSE [reqs[r] EXCEPT !.specs = specsFromApi,
                                            !.calls[i] = At("done")]]
       \/ reqs' = [reqs EXCEPT ![r] = [reqs[r] EXCEPT !.calls[i] = At("done"),
                                                       !.error = "SpecsLoadError"]]
  /\ UNCHANGED <<users, specs, versions, steps, transitions, seqs>>

\* the save button, which is disabled while a graph is saved, with a
\* version chosen: setSaving(true), setError(null), and saveGraph waits for
\* the answer of PUT /versions/:id/graph
saveGraph(r) ==
  /\ reqs[r].op = "editor" /\ Len(reqs[r].calls) < MaxCalls
  /\ reqs[r].currentVersionId # null /\ ~reqs[r].saving
  /\ reqs' = [reqs EXCEPT ![r] =
                [Call(r, [At("putGraph") EXCEPT !.closure = Closure(r), !.saving = TRUE])
                   EXCEPT !.saving = TRUE, !.error = null]]
  /\ UNCHANGED <<users, specs, versions, steps, transitions, seqs>>

\* the answer of PUT /versions/:id/graph: when the version saved was the
\* new one not yet pushed, loadVersionsForSpec is called with it; else
\* setSaving(false); with a failure the error is shown, and setSaving(false)
saveGraphPut(r) ==
  /\ \E i \in CallsAt(r, "putGraph") :
       \/ reqs' = [reqs EXCEPT ![r] =
                     IF /\ reqs[r].calls[i].closure.pendingPushVersionId
                             = reqs[r].calls[i].closure.currentVersionId
                        /\ reqs[r].calls[i].closure.currentSpecId # null
                     THEN [reqs[r] EXCEPT
                             !.calls[i] =
                               [At("getVersions") EXCEPT
                                  !.preferredVersionId =
                                    reqs[r].calls[i].closure.currentVersionId,
                                  !.saving = TRUE]]
                     ELSE [reqs[r] EXCEPT !.calls[i] = At("done"), !.saving = FALSE]]
       \/ reqs' = [reqs EXCEPT ![r] =
                     [reqs[r] EXCEPT !.calls[i] = At("done"), !.error = "SaveError",
                                     !.saving = FALSE]]
  /\ UNCHANGED <<users, specs, versions, steps, transitions, seqs>>

\* a status button, with a version chosen: changeStatus waits for the
\* answer of POST /versions/:id/status.  The specs and the currentSpecId it
\* reads later are those of its render, and so is the published version of
\* the chosen specification, which is kept with the call.
changeStatus(r) ==
  /\ reqs[r].op = "editor" /\ Len(reqs[r].calls) < MaxCalls
  /\ reqs[r].currentVersionId # null
  /\ reqs' = [reqs EXCEPT ![r] =
                Call(r, [At("postStatus") EXCEPT
                           !.closure = Closure(r),
                           !.preferredVersionId =
                             currentVersionIdOf(reqs[r].specs, reqs[r].currentSpecId)])]
  /\ UNCHANGED <<users, specs, versions, steps, transitions, seqs>>

\* the answer of POST /versions/:id/status: changeStatus goes on to wait for
\* the version; with a failure the error is shown
changeStatusStatus(r) ==
  /\ \E i \in CallsAt(r, "postStatus") :
       \/ reqs' = [reqs EXCEPT ![r] = [reqs[r] EXCEPT !.calls[i].pc = "getStatusVersion"]]
       \/ reqs' = [reqs EXCEPT ![r] = [reqs[r] EXCEPT !.calls[i] = At("done"),
                                                       !.error = "StatusError"]]
  /\ UNCHANGED <<users, specs, versions, steps, transitions, seqs>>

\* the answer of GET /versions/:id to changeStatus: with a specification
\* chosen loadVersionsForSpec is called with its published version as the
\* one to prefer; with a failure the error is shown
changeStatusVersion(r) ==
  /\ \E i \in CallsAt(r, "getStatusVersion") :
       \/ reqs' = [reqs EXCEPT ![r] =
                     IF reqs[r].calls[i].closure.currentSpecId # null
                     THEN [reqs[r] EXCEPT
                             !.calls[i] =
                               [At("getVersions") EXCEPT
                                  !.preferredVersionId =
                                    reqs[r].calls[i].preferredVersionId]]
                     ELSE [reqs[r] EXCEPT !.calls[i] = At("done")]]
       \/ reqs' = [reqs EXCEPT ![r] = [reqs[r] EXCEPT !.calls[i] = At("done"),
                                                       !.error = "StatusError"]]
  /\ UNCHANGED <<users, specs, versions, steps, transitions, seqs>>

\* the new version button, with a specification chosen and a version of the
\* list: createNewDraftVersion waits for the answer of POST .../fork
createNewDraftVersion(r) ==
  /\ reqs[r].op = "editor" /\ Len(reqs[r].calls) < MaxCalls
  /\ reqs[r].currentSpecId # null /\ reqs[r].currentVersionId # null
  /\ \E k \in 1..Len(reqs[r].versions) : reqs[r].versions[k] = reqs[r].currentVersionId
  /\ reqs' = [reqs EXCEPT ![r] = Call(r, At("postFork"))]
  /\ UNCHANGED <<users, specs, versions, steps, transitions, seqs>>

\* the answer of POST .../fork, a version: setPendingPushVersionId, and
\* loadVersionsForSpec is called with the new version as the one to
\* prefer; with a failure the error is shown
createNewDraftVersionFork(r) ==
  /\ \E i \in CallsAt(r, "postFork") :
       \/ \E newVersion \in VersionIds :
            reqs' = [reqs EXCEPT ![r] =
                       [reqs[r] EXCEPT
                          !.pendingPushVersionId = newVersion,
                          !.calls[i] = [At("getVersions")
                                          EXCEPT !.preferredVersionId = newVersion]]]
       \/ reqs' = [reqs EXCEPT ![r] = [reqs[r] EXCEPT !.calls[i] = At("done"),
                                                       !.error = "NewVersionError"]]
  /\ UNCHANGED <<users, specs, versions, steps, transitions, seqs>>

\* the new specification button, and a title is given (without one the
\* callback returns): createNewSpec waits for the answer of POST /specs
createNewSpec(r) ==
  /\ reqs[r].op = "editor" /\ Len(reqs[r].calls) < MaxCalls
  /\ reqs' = [reqs EXCEPT ![r] =
                Call(r, [At("postSpec") EXCEPT !.closure = Closure(r)])]
  /\ UNCHANGED <<users, specs, versions, steps, transitions, seqs>>

\* the answer of POST /specs: without a specification in it loadSpecs is
\* called, with one and its first version createNewSpec goes on to wait for
\* the list; with a failure the error is shown
createNewSpecSpec(r) ==
  /\ \E i \in CallsAt(r, "postSpec") :
       \/ reqs' = [reqs EXCEPT ![r] = [reqs[r] EXCEPT !.calls[i].pc = "getSpecs"]]
       \/ \E version \in {"1"} :
            reqs' = [reqs EXCEPT ![r] =
                       [reqs[r] EXCEPT
                          !.calls[i] = [At("getNewSpecs") EXCEPT
                                          !.preferredVersionId = version]]]
       \/ reqs' = [reqs EXCEPT ![r] = [reqs[r] EXCEPT !.calls[i] = At("done"),
                                                       !.error = "NewSpecError"]]
  /\ UNCHANGED <<users, specs, versions, steps, transitions, seqs>>

\* the answer of GET /specs to createNewSpec: the list is kept, the
\* specification that POST /specs answered with is chosen and
\* loadVersionsForSpec is called for it with its first version; with a
\* failure the error is shown
createNewSpecSpecs(r) ==
  /\ \E i \in CallsAt(r, "getNewSpecs") :
       \/ \E specsFromApi \in SpecsAnswers, spec \in SpecIds :
            reqs' = [reqs EXCEPT ![r] =
                       [reqs[r] EXCEPT
                          !.specs = specsFromApi,
                          !.currentSpecId = spec,
                          !.calls[i] = [At("getVersions") EXCEPT
                                          !.preferredVersionId =
                                            reqs[r].calls[i].preferredVersionId]]]
       \/ reqs' = [reqs EXCEPT ![r] = [reqs[r] EXCEPT !.calls[i] = At("done"),
                                                       !.error = "NewSpecError"]]
  /\ UNCHANGED <<users, specs, versions, steps, transitions, seqs>>

\* the compare button, which is disabled when the list has no version with
\* a lower number than the current one, with a specification and a version
\* chosen: setError(null), and loadDiffFor waits for the answer of GET
\* .../versions/compare
loadDiffFor(r) ==
  /\ reqs[r].op = "editor" /\ Len(reqs[r].calls) < MaxCalls
  /\ reqs[r].currentSpecId # null /\ reqs[r].currentVersionId # null
  /\ \E k \in 2..Len(reqs[r].versions) : reqs[r].versions[k] = reqs[r].currentVersionId
  /\ reqs' = [reqs EXCEPT ![r] = [Call(r, At("getCompare")) EXCEPT !.error = null]]
  /\ UNCHANGED <<users, specs, versions, steps, transitions, seqs>>

\* the answer of GET .../versions/compare: the differences are kept; with a
\* failure the error is shown
loadDiffForCompare(r) ==
  /\ \E i \in CallsAt(r, "getCompare") :
       \/ reqs' = [reqs EXCEPT ![r] = [reqs[r] EXCEPT !.calls[i] = At("done")]]
       \/ reqs' = [reqs EXCEPT ![r] = [reqs[r] EXCEPT !.calls[i] = At("done"),
                                                       !.error = "DiffError"]]
  /\ UNCHANGED <<users, specs, versions, steps, transitions, seqs>>

\* a block of the type of the button is added behind the blocks of the
\* canvas; its id is "node-" and the time, its title goes with the type
addNode(r) ==
  /\ reqs[r].op = "editor" /\ Len(reqs[r].calls) < MaxCalls
  /\ \E type \in {"action", "condition", "end"}, now \in {1} :
       reqs' = [reqs EXCEPT ![r] =
                  [Call(r, At("done")) EXCEPT
                     !.nodes =
                       Append(reqs[r].nodes,
                              [id |-> <<"n", "o", "d", "e", "-">> \o DecimalText(now),
                               type |-> "block",
                               position |-> [x |-> 100 + Len(reqs[r].nodes) * 50,
                                             y |-> 100 + Len(reqs[r].nodes) * 30],
                               data |-> [title |-> IF type = "condition"
                                                   THEN <<"U", "s", "l", "o", "v", "i", "e">>
                                                   ELSE IF type = "start"
                                                   THEN <<"S", "t", "a", "r", "t">>
                                                   ELSE IF type = "end"
                                                   THEN <<"K", "o", "n", "e", "c">>
                                                   ELSE <<"W", "a", "g">>,
                                         description |-> <<>>, realType |-> type,
                                         diffStatus |-> null]])]]
  /\ UNCHANGED <<users, specs, versions, steps, transitions, seqs>>

\* the first block of the canvas is connected to the last.  addEdge of React
\* Flow gives the edge the id "reactflow__edge-" source "-" target and adds
\* it behind the edges of the canvas, unless one of them joins the same
\* blocks.
onConnect(r) ==
  /\ reqs[r].op = "editor" /\ Len(reqs[r].calls) < MaxCalls
  /\ \E i \in {1} \cap DOMAIN reqs[r].nodes, j \in {Len(reqs[r].nodes)} :
       LET source == reqs[r].nodes[i].id
           target == reqs[r].nodes[j].id
       IN reqs' = [reqs EXCEPT ![r] =
                     [Call(r, At("done")) EXCEPT
                        !.edges =
                          IF \E e \in 1..Len(reqs[r].edges) :
                               /\ reqs[r].edges[e].source = source
                               /\ reqs[r].edges[e].target = target
                          THEN reqs[r].edges
                          ELSE Append(reqs[r].edges,
                                      [id |-> <<"r", "e", "a", "c", "t", "f", "l", "o", "w",
                                                "_", "_", "e", "d", "g", "e", "-">>
                                              \o source \o <<"-">> \o target,
                                       source |-> source, target |-> target,
                                       animated |-> FALSE])]]
  /\ UNCHANGED <<users, specs, versions, steps, transitions, seqs>>

\* the first block is double-clicked and both prompts are answered (a
\* cancelled prompt ends the handler): every block with its id gets the
\* title and the description
onNodeDoubleClick(r) ==
  /\ reqs[r].op = "editor" /\ Len(reqs[r].calls) < MaxCalls
  /\ \E i \in {1} \cap DOMAIN reqs[r].nodes, newTitle \in {<<"Z">>}, newDesc \in {<<>>} :
       reqs' = [reqs EXCEPT ![r] =
                  [Call(r, At("done")) EXCEPT
                     !.nodes =
                       [k \in 1..Len(reqs[r].nodes) |->
                          IF reqs[r].nodes[k].id = reqs[r].nodes[i].id
                          THEN [reqs[r].nodes[k] EXCEPT !.data.title = newTitle,
                                                        !.data.description = newDesc]
                          ELSE reqs[r].nodes[k]]]]
  /\ UNCHANGED <<users, specs, versions, steps, transitions, seqs>>

\* the first edge is double-clicked and the prompt is answered (a cancelled
\* prompt ends the handler): with an empty answer every edge with its id is
\* taken off the canvas, with any other every such edge gets the answer as
\* label
onEdgeDoubleClick(r) ==
  /\ reqs[r].op = "editor" /\ Len(reqs[r].calls) < MaxCalls
  /\ \E i \in {1} \cap DOMAIN reqs[r].edges, newLabel \in {<<>>, <<"L">>} :
       reqs' = [reqs EXCEPT ![r] =
                  [Call(r, At("done")) EXCEPT
                     !.edges =
                       IF newLabel = <<>>
                       THEN SelectSeq(reqs[r].edges,
                                      LAMBDA e : e.id # reqs[r].edges[i].id)
                       ELSE [k \in 1..Len(reqs[r].edges) |->
                               IF reqs[r].edges[k].id = reqs[r].edges[i].id
                               THEN [f \in DOMAIN reqs[r].edges[k] \cup {"label"} |->
                                       IF f = "label" THEN newLabel
                                       ELSE reqs[r].edges[k][f]]
                               ELSE reqs[r].edges[k]]]]
  /\ UNCHANGED <<users, specs, versions, steps, transitions, seqs>>

\* React Flow reports a change of the first block and applyNodeChanges
\* applies it to the nodes of the canvas: the block is taken off, or it is
\* moved to a position
onNodesChange(r) ==
  /\ reqs[r].op = "editor" /\ Len(reqs[r].calls) < MaxCalls
  /\ \E i \in {1} \cap DOMAIN reqs[r].nodes,
        change \in {[type |-> "remove"],
                    [type |-> "position", position |-> [x |-> 5, y |-> 6]]} :
       reqs' = [reqs EXCEPT ![r] =
                  [Call(r, At("done")) EXCEPT
                     !.nodes =
                       IF change.type = "remove"
                       THEN SelectSeq(reqs[r].nodes,
                                      LAMBDA n : n.id # reqs[r].nodes[i].id)
                       ELSE [k \in 1..Len(reqs[r].nodes) |->
                               IF reqs[r].nodes[k].id = reqs[r].nodes[i].id
                               THEN [reqs[r].nodes[k] EXCEPT !.position = change.position]
                               ELSE reqs[r].nodes[k]]]]
  /\ UNCHANGED <<users, specs, versions, steps, transitions, seqs>>

\* React Flow reports a change of the first arrow and applyEdgeChanges
\* applies it to the edges of the canvas: the arrow is taken off
onEdgesChange(r) ==
  /\ reqs[r].op = "editor" /\ Len(reqs[r].calls) < MaxCalls
  /\ \E i \in {1} \cap DOMAIN reqs[r].edges :
       reqs' = [reqs EXCEPT ![r] =
                  [Call(r, At("done")) EXCEPT
                     !.edges = SelectSeq(reqs[r].edges,
                                         LAMBDA e : e.id # reqs[r].edges[i].id)]]
  /\ UNCHANGED <<users, specs, versions, steps, transitions, seqs>>

\* the editor as it is mounted: nothing on the canvas, nothing chosen, no
\* error shown, no callback under way
Mounted ==
  [op |-> "editor", calls |-> <<>>, nodes |-> <<>>, edges |-> <<>>, error |-> null,
   loading |-> FALSE, saving |-> FALSE, rowsChosen |-> 0, specs |-> <<>>, versions |-> <<>>,
   currentSpecId |-> null, currentVersionId |-> null, pendingPushVersionId |-> null]

\* the editor as loadSpecs leaves it when the server has a specification
\* with two versions, the second of them published: the specification and
\* its published version are chosen, and the graph of the version is on the
\* canvas
Loaded ==
  [Mounted EXCEPT !.specs = <<[id |-> "1", currentVersionId |-> "2"]>>,
                  !.versions = <<"1", "2">>,
                  !.currentSpecId = "1", !.currentVersionId = "2",
                  !.nodes = GraphBlocks((CHOOSE answer \in GraphAnswers :
                                           answer.nodes # <<>>).nodes),
                  !.edges = (CHOOSE answer \in GraphAnswers : answer.nodes # <<>>).edges]

\* a run of the editor starts when it is mounted, or later with a version
\* loaded and no callback under way
InitImport ==
  /\ users = <<>>
  /\ specs = <<>> /\ versions = <<>> /\ steps = <<>> /\ transitions = <<>>
  /\ seqs = [user |-> 0, spec |-> 0, version |-> 0, step |-> 0, transition |-> 0]
  /\ reqs \in {[r \in {1} |-> ed] : ed \in {Mounted, Loaded}}

\* the callbacks of the editor, each with the steps its awaits cut it into
NextImport ==
  \/ \E r \in DOMAIN reqs : handleExcelFileChange(r)
  \/ \E r \in DOMAIN reqs : handleExcelFileChangeSheet(r)
  \/ \E r \in DOMAIN reqs : handleSpecChange(r)
  \/ \E r \in DOMAIN reqs : loadVersionsForSpec(r)
  \/ \E r \in DOMAIN reqs : loadGraphVersion(r)
  \/ \E r \in DOMAIN reqs : loadGraphGraph(r)
  \/ \E r \in DOMAIN reqs : loadSpecs(r)
  \/ \E r \in DOMAIN reqs : loadSpecsSpecs(r)
  \/ \E r \in DOMAIN reqs : saveGraph(r)
  \/ \E r \in DOMAIN reqs : saveGraphPut(r)
  \/ \E r \in DOMAIN reqs : changeStatus(r)
  \/ \E r \in DOMAIN reqs : changeStatusStatus(r)
  \/ \E r \in DOMAIN reqs : changeStatusVersion(r)
  \/ \E r \in DOMAIN reqs : createNewDraftVersion(r)
  \/ \E r \in DOMAIN reqs : createNewDraftVersionFork(r)
  \/ \E r \in DOMAIN reqs : createNewSpec(r)
  \/ \E r \in DOMAIN reqs : createNewSpecSpec(r)
  \/ \E r \in DOMAIN reqs : createNewSpecSpecs(r)
  \/ \E r \in DOMAIN reqs : loadDiffFor(r)
  \/ \E r \in DOMAIN reqs : loadDiffForCompare(r)
  \/ \E r \in DOMAIN reqs : addNode(r)
  \/ \E r \in DOMAIN reqs : onConnect(r)
  \/ \E r \in DOMAIN reqs : onNodeDoubleClick(r)
  \/ \E r \in DOMAIN reqs : onEdgeDoubleClick(r)
  \/ \E r \in DOMAIN reqs : onNodesChange(r)
  \/ \E r \in DOMAIN reqs : onEdgesChange(r)

SpecImport == InitImport /\ [][NextImport]_vars

(***************************************************************************)
(* Properties of the import                                                *)
(***************************************************************************)

\* the imports of the editor that have waited for the bytes of their file
\* and that this step ends
ImportEnds(q) ==
  {i \in CallsAt(q, "arrayBuffer") : reqs'[q].calls[i].pc # "arrayBuffer"}

\* the imports of the editor that have put their graph on the canvas
Imported(q) == CallsAt(q, "alert")

\* the errors an import ends with
ImportErrors ==
  {"EmptySheet", "NoHeaderFound", "TypeError", "MissingRequiredColumns", "NoStepsFound"}

\* the number a cell of the number column stands for
NumberOf(cell) == parseFloat(ReplaceComma(Trim(cell)))

\* digits, with at most a decimal comma or point among them
IsNumber(cell) ==
  /\ \A i \in 1..Len(Trim(cell)) : Trim(cell)[i] \in Digit \cup {",", "."}
  /\ ~isNaN(NumberOf(cell))

\* every data row has a number and no two rows have the same
DistinctNumbers(data) ==
  /\ \A i \in 1..Len(data) : IsNumber(data[i][1])
  /\ \A i, j \in 1..Len(data) :
       i < j => SignOfDifference(NumberOf(data[i][1]), NumberOf(data[j][1])) # 0

\* neither the description, nor the criterion, nor the note of a row holds
\* a match of the pattern
NoMatchInCells(data) ==
  \A i \in 1..Len(data) : \A c \in {3, 4, 6} :
    extractTransitionsFromText(data[i][c]) = <<>>

\* the three texts of a row, put one after the other, hold no match
NoMatchInRows(data) ==
  \A i \in 1..Len(data) :
    extractTransitionsFromText(
      textForParsing([rawDescr |-> data[i][3], rawCrit |-> data[i][4],
                      rawDevNote |-> data[i][6]])) = <<>>

\* one node per data row, by ascending number, the first a start and the
\* last of several an end, and one edge from each node to the next
LinearGraph(data, nodes, edges) ==
  /\ Len(nodes) = Len(data)
  /\ {nodes[i].id : i \in 1..Len(nodes)} = {Trim(data[i][1]) : i \in 1..Len(data)}
  /\ \A i \in 1..(Len(nodes) - 1) :
       SignOfDifference(NumberOf(nodes[i].id), NumberOf(nodes[i + 1].id)) < 0
  /\ nodes[1].data.realType = "start"
  /\ Len(nodes) > 1 => nodes[Len(nodes)].data.realType = "end"
  /\ Len(edges) = Len(data) - 1
  /\ \A i \in 1..Len(edges) :
       edges[i].source = nodes[i].id /\ edges[i].target = nodes[i + 1].id

\* C19 as stated: under the column titles, n >= 1 rows with distinct numbers
\* and no match of the pattern in any description, criterion or note cell
\* give n nodes by ascending number and the n - 1 edges between neighbours.
C19_LinearChainWhenNoCellMatches ==
  [][\A r \in DOMAIN reqs :
       \A call \in ImportEnds(r) : \A table \in {reqs[r].calls[call].rows} :
         \A h \in {i \in 1..Len(table) : table[i] = HeaderRow} :
           (/\ h < Len(table)
            /\ DistinctNumbers(SubSeq(table, h + 1, Len(table)))
            /\ NoMatchInCells(SubSeq(table, h + 1, Len(table))))
           => /\ reqs'[r].calls[call].pc = "alert"
              /\ LinearGraph(SubSeq(table, h + 1, Len(table)), reqs'[r].nodes, reqs'[r].edges)]_vars

\* C19, amended: the same, when for every row the description, criterion
\* and note put one after the other (as the handler searches them) hold no
\* match of the pattern.
C19_LinearChainWhenNoRowMatches ==
  [][\A r \in DOMAIN reqs :
       \A call \in ImportEnds(r) : \A table \in {reqs[r].calls[call].rows} :
         \A h \in {i \in 1..Len(table) : table[i] = HeaderRow} :
           (/\ h < Len(table)
            /\ DistinctNumbers(SubSeq(table, h + 1, Len(table)))
            /\ NoMatchInRows(SubSeq(table, h + 1, Len(table))))
           => /\ reqs'[r].calls[call].pc = "alert"
              /\ LinearGraph(SubSeq(table, h + 1, Len(table)), reqs'[r].nodes, reqs'[r].edges)]_vars

\* rows 3, 1, 2 were imported: nodes 1, 2, 3 typed start, action, end and
\* the edges 1 -> 2 and 2 -> 3
C19_Witness ==
  \E r \in DOMAIN reqs :
    /\ Imported(r) # {}
    /\ [i \in 1..Len(reqs[r].nodes) |-> <<reqs[r].nodes[i].id, reqs[r].nodes[i].data.realType>>]
         = <<<<(<<"1">>), "start">>, <<(<<"2">>), "action">>, <<(<<"3">>), "end">>>>
    /\ [i \in 1..Len(reqs[r].edges) |-> <<reqs[r].edges[i].source, reqs[r].edges[i].target>>]
         = <<<<(<<"1">>), (<<"2">>)>>, <<(<<"2">>), (<<"3">>)>>>>

\* the transitions found in the texts of a step
FoundIn(step) == extractTransitionsFromText(textForParsing(step))

\* the edges C20 names, for the steps in sorted order: every transition
\* found, and for every step but the last with none found in its own texts
\* the edge to the next step
ExpectedEdgePairs(stepsSorted) ==
  UNION {{<<stepsSorted[i].key, FoundIn(stepsSorted[i])[j].targetKey>> :
            j \in 1..Len(FoundIn(stepsSorted[i]))} : i \in 1..Len(stepsSorted)}
  \cup {<<stepsSorted[i].key, stepsSorted[i + 1].key>> :
          i \in {k \in 1..(Len(stepsSorted) - 1) : FoundIn(stepsSorted[k]) = <<>>}}

EdgePairs(edges) == {<<edges[i].source, edges[i].target>> : i \in 1..Len(edges)}

\* C20: when a transition is found in the texts of some step, the edges of
\* the imported graph are the transitions found, each once, and an edge to
\* the next step from every step but the last that has none of its own,
\* the steps taken in the order the sort has returned them in.
C20_ExplicitPlusFallback ==
  [][\A r \in DOMAIN reqs :
       \A call \in ImportEnds(r) : \A table \in {reqs[r].calls[call].rows} :
         \A h \in {i \in 1..Len(table) : i = headerRowIndex(table)} :
           \A stepList \in {StepsFrom(table, Columns(table[h]), h + 1)} :
             (/\ reqs'[r].calls[call].pc = "alert"
              /\ \E i \in 1..Len(stepList) : FoundIn(stepList[i]) # <<>>)
             => \E sorted \in SortSteps(stepList) :
                  /\ \A i \in 1..Len(sorted) : reqs'[r].nodes[i].id = sorted[i].key
                  /\ EdgePairs(reqs'[r].edges) = ExpectedEdgePairs(sorted)]_vars

\* the steps the handler takes from a table, in the order of the table; none
\* when the table has no row of column titles
StepsOfTable(table) ==
  LET h == headerRowIndex(table)
  IN IF h \in 1..Len(table) THEN StepsFrom(table, Columns(table[h]), h + 1) ELSE <<>>

\* the positions of the nodes with an id
NodesWithId(nodes, id) == {i \in 1..Len(nodes) : nodes[i].id = id}

\* the numbers N of the matches in the texts of the steps that are the key of
\* no step
MissingTargets(stepList) ==
  UNION {{FoundIn(stepList[i])[j].targetKey : j \in 1..Len(FoundIn(stepList[i]))} :
           i \in 1..Len(stepList)}
  \ {stepList[i].key : i \in 1..Len(stepList)}

\* C21: in every graph an import puts on the canvas each edge starts and ends
\* at the id of a node of the graph, and for every matched number N that is
\* the key of no step there is exactly one node with id N: an action titled
\* "Шаг N" with an empty description.
C21_EdgesEndAtNodes ==
  [][\A r \in DOMAIN reqs :
       \A call \in ImportEnds(r) : \A table \in {reqs[r].calls[call].rows} :
         reqs'[r].calls[call].pc = "alert"
         => /\ \A e \in 1..Len(reqs'[r].edges) :
                 /\ NodesWithId(reqs'[r].nodes, reqs'[r].edges[e].source) # {}
                 /\ NodesWithId(reqs'[r].nodes, reqs'[r].edges[e].target) # {}
            /\ \A N \in MissingTargets(StepsOfTable(table)) :
                 /\ Cardinality(NodesWithId(reqs'[r].nodes, N)) = 1
                 /\ \A i \in NodesWithId(reqs'[r].nodes, N) :
                      /\ reqs'[r].nodes[i].data.realType = "action"
                      /\ reqs'[r].nodes[i].data.title = Phrases.stepPrefix \o N
                      /\ reqs'[r].nodes[i].data.description = <<>>]_vars

\* steps 1 and 2 both name step 3, which no row has: the graph has the edges
\* 1 -> 3 and 2 -> 3 and one node 3, an action titled "Шаг 3"
C21_Witness ==
  \E r \in DOMAIN reqs :
    /\ Imported(r) # {}
    /\ {<<(<<"1">>), (<<"3">>)>>, <<(<<"2">>), (<<"3">>)>>} \subseteq EdgePairs(reqs[r].edges)
    /\ Cardinality(NodesWithId(reqs[r].nodes, <<"3">>)) = 1
    /\ \A i \in NodesWithId(reqs[r].nodes, <<"3">>) :
         /\ reqs[r].nodes[i].data.title = <<"W", "a", "g", " ", "3">>
         /\ reqs[r].nodes[i].data.realType = "action"
         /\ reqs[r].nodes[i].position.x = 400

\* the description cell of the step holds a match of the pattern with the
\* number N
DescriptionNames(step, N) ==
  \E j \in 1..Len(extractTransitionsFromText(step.rawDescr)) :
    extractTransitionsFromText(step.rawDescr)[j].targetKey = N

\* C22: when the description of the one row with number 1 holds "переход к
\* шагу 3", wherever in the text, the imported graph has an edge from 1 to 3
\* and that edge has a label that is not empty.
C22_EdgeHasLabel ==
  [][\A r \in DOMAIN reqs :
       \A call \in ImportEnds(r) : \A table \in {reqs[r].calls[call].rows} :
         \A stepList \in {StepsOfTable(table)} :
           (/\ reqs'[r].calls[call].pc = "alert"
            /\ Cardinality({i \in 1..Len(stepList) : stepList[i].key = <<"1">>}) = 1
            /\ \E i \in 1..Len(stepList) :
                 stepList[i].key = <<"1">> /\ DescriptionNames(stepList[i], <<"3">>))
           => \E e \in 1..Len(reqs'[r].edges) :
                /\ reqs'[r].edges[e].source = <<"1">>
                /\ reqs'[r].edges[e].target = <<"3">>
                /\ "label" \in DOMAIN reqs'[r].edges[e]
                /\ reqs'[r].edges[e].label \notin {undefined, <<>>}]_vars

\* the sheet is one the handler gives up on: it has no rows, no row of column
\* titles, no "№" or "Шаг сценария" column, or no row with a step number
ImportFails(table) ==
  \/ table = <<>>
  \/ LET h == headerRowIndex(table)
     IN \/ h \notin 1..Len(table)
        \/ LET cols == Columns(table[h])
           IN cols.num = 0 \/ cols.title = 0 \/ StepsFrom(table, cols, h + 1) = <<>>

\* C23: an import of a sheet without a row of column titles, without the
\* number or the title column, or without a step row ends with an error
\* message, and no step of an import that ends with an error changes the
\* nodes or the edges of the canvas: choosing the file leaves them as they
\* are, and so does the step that ends the import with the error.
C23_FailedImportKeepsCanvas ==
  [][\A r \in DOMAIN reqs :
       /\ \A before \in {reqs[q] : q \in {q \in {r} : reqs[q].op = "editor"}} :
            (/\ Len(reqs'[r].calls) > Len(before.calls)
             /\ reqs'[r].calls[Len(reqs'[r].calls)].pc = "arrayBuffer")
            => /\ reqs'[r].nodes = before.nodes
               /\ reqs'[r].edges = before.edges
       /\ \A call \in ImportEnds(r) : \A table \in {reqs[r].calls[call].rows} :
            /\ ImportFails(table) => /\ reqs'[r].calls[call].pc = "catch"
                                     /\ reqs'[r].error \in ImportErrors
            /\ reqs'[r].calls[call].pc = "catch"
               => /\ reqs'[r].error \in ImportErrors
                  /\ reqs'[r].nodes = reqs[r].nodes
                  /\ reqs'[r].edges = reqs[r].edges]_vars

\* an import has ended with an error while the canvas showed a graph, and
\* the canvas still shows it
C23_Witness ==
  \E r \in DOMAIN reqs :
    /\ CallsAt(r, "catch") # {}
    /\ reqs[r].error \in {"NoHeaderFound", "MissingRequiredColumns", "NoStepsFound"}
    /\ Len(reqs[r].nodes) = 1 /\ reqs[r].nodes[1].id = <<"9">>
    /\ Len(reqs[r].edges) = 1

\* the rows under row h whose first cell holds a digit
NumberedRows(table, h) ==
  {i \in (h + 1)..Len(table) :
     table[i] # <<>> /\ \E c \in 1..Len(Trim(table[i][1])) : Trim(table[i][1])[c] \in Digit}

\* C24: in a sheet without the marker phrase, the first row whose first cell
\* is "№", "No" or "N" (in either case) and that has a cell with "шаг
\* сценария" is taken as the row of column titles, and the import of the
\* numbered rows under it succeeds with the first column as their numbers.
C24_NumberMarkerHeader ==
  [][\A r \in DOMAIN reqs :
       \A call \in ImportEnds(r) : \A table \in {reqs[r].calls[call].rows} :
         \A h \in {i \in 1..Len(table) : i = headerRowIndex(table)} :
           (/\ \A i \in 1..Len(table) : ~RowIncludes(table[i], Phrases.marker)
            /\ ToLowerCase(Trim(table[h][1])) \in {<<"#">>, <<"ln", "lo">>, <<"ln">>}
            /\ NumberedRows(table, h) # {})
           => /\ reqs'[r].calls[call].pc = "alert"
              /\ \A i \in NumberedRows(table, h) :
                   NodesWithId(reqs'[r].nodes, Trim(table[i][1])) # {}]_vars

\* the type C25 gives the step at position i of n sorted steps
TypeByPosition(step, i, n) ==
  IF i = 1 THEN "start"
  ELSE IF i = n THEN "end"
  ELSE IF \/ Includes(ToLowerCase(step.title), Phrases.check)
          \/ Includes(ToLowerCase(step.title), Phrases.checked)
       THEN "condition" ELSE "action"

\* C25: in an imported graph, the steps taken in the order the sort has
\* returned them in, the node of the first step is a start,
\* the node of the last of two or more steps an end, the node of any step
\* between them a condition when its title has "проверка" or "проверяется"
\* (in either case) and an action otherwise; so the graph has exactly one
\* start and at most one end.
C25_TypesByPosition ==
  [][\A r \in DOMAIN reqs :
       \A call \in ImportEnds(r) : \A table \in {reqs[r].calls[call].rows} :
         reqs'[r].calls[call].pc = "alert"
         => /\ \E sorted \in SortSteps(StepsOfTable(table)) :
                 /\ Len(reqs'[r].nodes) >= Len(sorted)
                 /\ \A i \in 1..Len(sorted) :
                      /\ reqs'[r].nodes[i].id = sorted[i].key
                      /\ reqs'[r].nodes[i].data.realType
                           = TypeByPosition(sorted[i], i, Len(sorted))
            /\ Cardinality({i \in 1..Len(reqs'[r].nodes) :
                              reqs'[r].nodes[i].data.realType = "start"}) = 1
            /\ Cardinality({i \in 1..Len(reqs'[r].nodes) :
                              reqs'[r].nodes[i].data.realType = "end"}) <= 1]_vars

\* steps 2, 2,5 and 3 were imported, the second titled "ПРОВЕРЯЕТСЯ": a
\* start, a condition and an end
C25_Witness ==
  \E r \in DOMAIN reqs :
    /\ Imported(r) # {}
    /\ [i \in 1..Len(reqs[r].nodes) |-> <<reqs[r].nodes[i].id, reqs[r].nodes[i].data.realType>>]
         = <<<<(<<"2">>), "start">>, <<(<<"2", ",", "5">>), "condition">>, <<(<<"3">>), "end">>>>

\* the label of the first match with number N in the texts of the step, as
\* an edge carries it
FirstLabel(step, N) ==
  LET first == Least({j \in 1..Len(FoundIn(step)) : FoundIn(step)[j].targetKey = N})
  IN IF FoundIn(step)[first].label = <<>> THEN undefined ELSE FoundIn(step)[first].label

\* the edges with a label, the ones made of the transitions found, from
\* source to target
ExplicitEdges(edges, source, target) ==
  {e \in 1..Len(edges) :
     "label" \in DOMAIN edges[e] /\ edges[e].source = source /\ edges[e].target = target}

\* C26: for every step and every number N matched in its texts, once or
\* several times, the imported graph has exactly one edge made of a
\* transition from the step to N, and it carries the label of the first of
\* these matches; so no two such edges have the same source and target.
C26_OneEdgePerTarget ==
  [][\A r \in DOMAIN reqs :
       \A call \in ImportEnds(r) : \A table \in {reqs[r].calls[call].rows} :
         \A stepList \in {StepsOfTable(table)} :
           reqs'[r].calls[call].pc = "alert"
           => \A i \in 1..Len(stepList) :
                \A N \in {FoundIn(stepList[i])[j].targetKey :
                            j \in 1..Len(FoundIn(stepList[i]))} :
                  /\ Cardinality(ExplicitEdges(reqs'[r].edges, stepList[i].key, N)) = 1
                  /\ \A e \in ExplicitEdges(reqs'[r].edges, stepList[i].key, N) :
                       reqs'[r].edges[e].label = FirstLabel(stepList[i], N)]_vars

\* C30: the nodes of an imported graph, of steps and made up for missing
\* targets alike, have ids that differ from each other, also when two rows
\* of the sheet have the same step number.
C30_NodeIdsUnique ==
  [][\A r \in DOMAIN reqs :
       \A call \in ImportEnds(r) :
         reqs'[r].calls[call].pc = "alert"
         => \A i, j \in 1..Len(reqs'[r].nodes) :
              i # j => reqs'[r].nodes[i].id # reqs'[r].nodes[j].id]_vars

\* no entry of the list is there twice
NoRepeats(list) == \A i, j \in 1..Len(list) : i # j => list[i] # list[j]

\* the step keys of the entries, in the order of the list
KeyList(entries) == [i \in 1..Len(entries) |-> entries[i].stepKey]

\* C27: in the answer of a compare a step key stands in at most one of
\* steps.added, steps.removed and steps.changed, and once there; a
\* (fromKey, toKey, label) stands at most once in edges.added, at most once
\* in edges.removed and never in both; whatever keys and transitions the
\* stored versions repeat.
C27_DiffEntriesUnique ==
  \A r \in Compared :
    LET body == reqs[r].res.body
    IN /\ NoRepeats(KeyList(body.steps.added) \o KeyList(body.steps.removed)
                    \o KeyList(body.steps.changed))
       /\ NoRepeats(body.edges.added \o body.edges.removed)

\* a compare of a version that holds the same transition twice with a
\* version without transitions: one removed entry
C27_Witness ==
  \E r \in Compared :
    /\ Len(reqs[r].fromVersion.transitions) = 2
    /\ reqs[r].fromVersion.transitions[1].fromStepId
         = reqs[r].fromVersion.transitions[2].fromStepId
    /\ reqs[r].fromVersion.transitions[1].toStepId
         = reqs[r].fromVersion.transitions[2].toStepId
    /\ reqs[r].fromVersion.transitions[1].label = reqs[r].fromVersion.transitions[2].label
    /\ Len(reqs[r].res.body.edges.removed) = 1
    /\ reqs[r].toVersion.transitions = <<>>

\* the versions a spec is pointed at: the rows with that id
CurrentVersions(spec) ==
  {j \in 1..Len(versions) : versions[j].id = spec.currentVersionId}

\* C28: at every moment the currentVersionId of every spec names a version
\* that exists and is a version of that spec; it is the first version of the
\* spec when the spec is created, and changes only when a request that sets
\* a version of the spec to published points the spec at that version.
C28_CurrentVersionOfSpec ==
  /\ [](\A i \in 1..Len(specs) :
          /\ CurrentVersions(specs[i]) # {}
          /\ \A j \in CurrentVersions(specs[i]) : versions[j].specId = specs[i].id)
  /\ [][/\ RowIds(specs) \subseteq RowIds(specs')
        /\ \A i \in 1..Len(specs') :
             IF specs'[i].id \notin RowIds(specs)
             THEN \A j \in CurrentVersions(specs[i])' : versions'[j].versionNumber = 1
             ELSE \/ specs'[i] = RowOf(specs, specs'[i].id)
                  \/ \E r \in DOMAIN reqs :
                       /\ StatusUpdateSpec(r)
                       /\ reqs[r].status = "published"
                       /\ specs'[i].currentVersionId = reqs[r].versionId
                       /\ VersionRow(reqs[r].versionId).specId = specs'[i].id]_vars

\* two specs, the second still pointed at its first version, the first
\* pointed at its second version by a request that published it
C28_Witness ==
  /\ Len(specs) = 2
  /\ specs[1].currentVersionId = 2
  /\ \E j \in CurrentVersions(specs[2]) : versions[j].versionNumber = 1 /\ versions[j].specId = 2
  /\ \E r \in DOMAIN reqs :
       /\ reqs[r].op = "status" /\ reqs[r].pc = "done"
       /\ reqs[r].status = "published" /\ reqs[r].versionId = 2

\* requests that have set a version to published and have been answered
Published ==
  {r \in DOMAIN reqs : reqs[r].op = "status" /\ reqs[r].pc = "done"
                       /\ reqs[r].status = "published"}

\* C29: when two requests have set two versions of one spec to published,
\* the spec is pointed at the version whose status was updated last.
C29_LastPublishedIsCurrent ==
  \A r1 \in Published, r2 \in Published :
    (/\ r1 \in reqs[r2].earlier
     /\ reqs[r1].versionId # reqs[r2].versionId
     /\ VersionRow(reqs[r1].versionId).specId = VersionRow(reqs[r2].versionId).specId)
    => \A i \in 1..Len(specs) :
         specs[i].id = VersionRow(reqs[r2].versionId).specId
         => specs[i].currentVersionId = reqs[r2].versionId

====
